---------------------------- MODULE Spec2Model ----------------------------
(***************************************************************************)
(* Model of the Synchronized Preview & Mixdown Engine of Spot-Marker-IA.   *)
(*                                                                         *)
(* Playback Graph Manager and Animation Clock: components/VideoPreview.tsx *)
(* Shared audio engine handle and buffer preparation: services/audioUtils  *)
(* (src/unnamed/part_003).  The application shell that feeds the preview   *)
(* its props is App.tsx (src/unnamed/part_002).                            *)
(*                                                                         *)
(* Time is counted in ticks of half a second, so that the 0.5 s "small     *)
(* buffer" of animate() is one tick.  Volumes are percentages (0.25 = 25). *)
(*                                                                         *)
(* Every play() that gets past its guard creates one "session": the voice  *)
(* source, the optional music source with its gain node, and the chain of  *)
(* requestAnimationFrame callbacks that its call of animate() begins.      *)
(* sessions[k] is the Web Audio side of the session in slot k: nodes keep   *)
(* playing whether or not a ref of the component still points at them.  A  *)
(* ref holds the slot of the session whose node it points at, or Null.  A  *)
(* slot is free again once its nodes have finished and its callback chain  *)
(* has ended, so MaxSessions bounds the sessions alive at one time, not    *)
(* the number of times play() is called.                                   *)
(*                                                                         *)
(* An AudioBuffer is named by a number: b in Buffers while it is the       *)
(* object its prop (audioBuffer or musicBuffer) currently holds, -b once   *)
(* the prop has been given another object or null; what still holds the    *)
(* old object (a source node, the closure of a suspended play()) then      *)
(* holds -b.  Two buffers of one prop never share a positive name.         *)
(*                                                                         *)
(* A requestAnimationFrame handle is named by the session whose chain      *)
(* requested it.  Each chain has at most one callback outstanding, and     *)
(* animationFrameRef is overwritten at every request, so when the ref      *)
(* names chain k it holds the newest handle of chain k: cancelling it      *)
(* removes k from rafQueue if that callback has not run yet and does       *)
(* nothing otherwise, which is what cancelAnimationFrame does.  A handle   *)
(* whose chain has ended is Stale: cancelling it does nothing.             *)
(***************************************************************************)
EXTENDS Integers, Sequences, FiniteSets

\* ------------------------------------------------------------------ bounds
MaxSessions == 2

\* ------------------------------------------------------- program constants
Null == 0
\* a requestAnimationFrame handle whose callback has run or was cancelled
Stale == -1
\* App.tsx initial state: musicVolume: 0.25
DefaultVolume == 25
\* animate(): elapsed > duration + 0.5, in ticks of half a second
SmallBuffer == 1
\* the levels the volume slider is moved between
Volumes == {DefaultVolume, 80}
\* new AudioContext(): the state the browser constructs it in
NewContextStates == {"suspended", "running"}

\* the buffers a generation or a decode can produce
Buffers == {1}
\* The whole ticks in a buffer's duration: for a whole number of ticks e,
\* e > duration + 0.5 s is e > DurationOf(b) + 1.  The voice is shorter
\* than a tick: a frame at tick 1 falls within duration + 0.5 s, one at
\* tick 2 after it.
DurationOf(b) == 0
\* The first tick at which every animate() stops: later times are not told
\* apart from it.
Late == DurationOf(1) + SmallBuffer + 1
\* the name of a buffer once its prop holds another object
Retire(b) == IF b > 0 THEN -b ELSE b

VARIABLES
  \* props of VideoPreview (App state)
  audioBuffer, musicBuffer, musicVolume,
  \* VideoPreview state and refs
  imageElement, isPlaying, audioContextRef,
  voiceSourceRef, musicSourceRef, musicGainNodeRef,
  animationFrameRef, startTimeRef,
  \* the platform: audio nodes, scheduled animation callbacks, suspended
  \* play() calls, the canvas, the clock
  sessions, rafQueue, pending, frame, now,
  \* audioUtils module state
  sharedAudioContext,
  \* bookkeeping: contexts constructed, an exception that escaped a handler,
  \* the operation that ran last, and whether play() got past its guard
  \* since the last stop()
  contextsConstructed, uncaught, lastOp, playSinceStop,
  \* whether VideoPreview is mounted (its canvas exists, its handlers can be
  \* invoked)
  mounted,
  \* the last call of an audioUtils function: its arguments and its outcome
  call,
  \* the canvas of the preview as drawFrame works on it: the props drawFrame
  \* reads, the state of the 2D context, and what the last call drew
  canvas,
  \* App: the name of the music file, the flag of a running audio export,
  \* and the audio export that runs or ran last
  app,
  \* GeminiService: the call of withRetry that runs or ran last, and the
  \* call of generateSpeech it belongs to, if any
  svc

vars == <<audioBuffer, musicBuffer, musicVolume, imageElement, isPlaying,
          audioContextRef, voiceSourceRef, musicSourceRef, musicGainNodeRef,
          animationFrameRef, startTimeRef, sessions, rafQueue, pending, frame,
          now, sharedAudioContext, contextsConstructed,
          uncaught, lastOp, playSinceStop, mounted, call, canvas, app,
          svc>>

\* The state the component's functions read and write, as one value.
Cur ==
  [audioBuffer |-> audioBuffer, musicBuffer |-> musicBuffer,
   musicVolume |-> musicVolume, imageElement |-> imageElement,
   isPlaying |-> isPlaying, audioContextRef |-> audioContextRef,
   voiceSourceRef |-> voiceSourceRef, musicSourceRef |-> musicSourceRef,
   musicGainNodeRef |-> musicGainNodeRef,
   animationFrameRef |-> animationFrameRef, startTimeRef |-> startTimeRef,
   sessions |-> sessions, rafQueue |-> rafQueue, pending |-> pending,
   frame |-> frame, now |-> now, contextsConstructed |-> contextsConstructed,
   uncaught |-> uncaught, playSinceStop |-> playSinceStop,
   mounted |-> mounted]

\* the nodes of a slot that holds no session.  ownStart tells whether
\* startTimeRef.current still holds the timestamp that the session's play()
\* captured.
FreeSlot ==
  [audioBuffer |-> Null, musicBuffer |-> Null, voice |-> "done",
   voiceOffset |-> 0, music |-> "none", musicOffset |-> 0, gain |-> 0,
   gainLive |-> FALSE, ownStart |-> FALSE]

\* A node that has finished and that no ref or callback reaches is garbage:
\* what it held is forgotten.  The voice buffer is kept while the session's
\* animate() can still run, since animate() reads its duration; so is whose
\* timestamp startTimeRef holds, since animate() reads it.
Collect(q, k) ==
  LET n == q.sessions[k]
  IN [n EXCEPT !.audioBuffer = IF n.voice = "done" /\ k \notin q.rafQueue THEN Null ELSE @,
               !.voiceOffset = IF n.voice = "done" THEN 0 ELSE @,
               !.musicBuffer = IF n.music = "playing" THEN @ ELSE Null,
               !.music = IF n.music = "playing" THEN @ ELSE "none",
               !.musicOffset = IF n.music = "playing" THEN @ ELSE 0,
               !.gain = IF n.gainLive THEN @ ELSE 0,
               !.ownStart = IF k \in q.rafQueue THEN @ ELSE FALSE]

\* The clock is read only as performance.now() - startTimeRef.current, and
\* only by animate(): states are kept with the clock counted from the start
\* timestamp, and with both at 0 while no animate() is scheduled (the next
\* play() captures the timestamp anew before anything reads it).
Normalize(q) ==
  [q EXCEPT !.sessions = [k \in DOMAIN q.sessions |-> Collect(q, k)],
            !.animationFrameRef =
               IF @ \in DOMAIN q.sessions /\ @ \notin q.rafQueue THEN Stale ELSE @,
            !.now = IF q.rafQueue = {} THEN 0
                    ELSE IF q.now - q.startTimeRef > Late THEN Late
                    ELSE q.now - q.startTimeRef,
            !.startTimeRef = 0]

Install(t) ==
  \E s \in {Normalize(t)} :
  /\ audioBuffer' = s.audioBuffer
  /\ musicBuffer' = s.musicBuffer
  /\ musicVolume' = s.musicVolume
  /\ imageElement' = s.imageElement
  /\ isPlaying' = s.isPlaying
  /\ audioContextRef' = s.audioContextRef
  /\ voiceSourceRef' = s.voiceSourceRef
  /\ musicSourceRef' = s.musicSourceRef
  /\ musicGainNodeRef' = s.musicGainNodeRef
  /\ animationFrameRef' = s.animationFrameRef
  /\ startTimeRef' = s.startTimeRef
  /\ sessions' = s.sessions
  /\ rafQueue' = s.rafQueue
  /\ pending' = s.pending
  /\ frame' = s.frame
  /\ now' = s.now
  /\ contextsConstructed' = s.contextsConstructed
  /\ uncaught' = s.uncaught
  /\ playSinceStop' = s.playSinceStop
  /\ mounted' = s.mounted

\* --------------------------------------------------------------- drawFrame
\* drawFrame(time): returns without drawing when there is no canvas (the
\* component is unmounted) or the image is not loaded; otherwise the canvas
\* shows the frame computed for `time`.
DrawFrame(s, time) ==
  IF ~s.mounted \/ ~s.imageElement THEN s ELSE [s EXCEPT !.frame = time]

\* -------------------------------------------------------------------- stop
\* a stop() that ends the voice source and forgets to release the ref
TryStopVoiceKeepsRef(s) ==
  IF s.voiceSourceRef = Null THEN s
  ELSE [s EXCEPT !.sessions[s.voiceSourceRef].voice =
                     IF @ = "playing" THEN "ended" ELSE @]

\* try { voiceSourceRef.current.stop(); .disconnect() } catch (e) {}
\* stop() on a source that is playing ends it and queues its `ended` event;
\* on a source that already ended it changes nothing (an implementation that
\* raises InvalidStateError there has the error swallowed by the catch).
TryStopVoice(s) ==
  IF s.voiceSourceRef = Null THEN s
  ELSE [s EXCEPT !.sessions[s.voiceSourceRef].voice =
                     IF @ = "playing" THEN "ended" ELSE @,
                 !.voiceSourceRef = Null]

\* the music source has no onended handler: once stopped it is finished
TryStopMusic(s) ==
  IF s.musicSourceRef = Null THEN s
  ELSE [s EXCEPT !.sessions[s.musicSourceRef].music =
                     IF @ = "playing" THEN "stopped" ELSE @,
                 !.musicSourceRef = Null]

TryDisconnectGain(s) ==
  IF s.musicGainNodeRef = Null THEN s
  ELSE [s EXCEPT !.sessions[s.musicGainNodeRef].gainLive = FALSE,
                 !.musicGainNodeRef = Null]

\* if (animationFrameRef.current) cancelAnimationFrame(...): the ref keeps
\* its value
CancelAnimation(s) ==
  IF s.animationFrameRef = 0 THEN s
  ELSE [s EXCEPT !.rafQueue = @ \ {s.animationFrameRef}]

StopOp(s) ==
  LET s1 == CancelAnimation(TryDisconnectGain(TryStopMusic(TryStopVoice(s))))
      s2 == [s1 EXCEPT !.isPlaying = FALSE, !.playSinceStop = FALSE]
  IN DrawFrame(s2, 0)

\* the slots free for a new session
FreeSlots(s) ==
  {k \in DOMAIN s.sessions : s.sessions[k] = FreeSlot /\ k \notin s.rafQueue}

\* some source node is playing: the audio engine is not idle
AnyPlaying(s) ==
  \E k \in DOMAIN s.sessions :
     s.sessions[k].voice = "playing" \/ s.sessions[k].music = "playing"

\* ----------------------------------------------------------------- animate
\* animate() of the render in which session k's play() was called: its
\* audioBuffer is the one that play() captured.
Animate(s, k) ==
  LET elapsed == s.now - s.startTimeRef
      duration == DurationOf(s.sessions[k].audioBuffer)
  IN IF elapsed > duration + SmallBuffer
       THEN StopOp(s)
       ELSE [DrawFrame(s, elapsed) EXCEPT !.rafQueue = @ \cup {k},
                                          !.animationFrameRef = k]

\* -------------------------------------------------------------------- play
\* what play() captured from its render
Closure(s) ==
  [audioBuffer |-> s.audioBuffer, musicBuffer |-> s.musicBuffer,
   musicVolume |-> s.musicVolume]

\* play() that does not capture the start timestamp
PlayBodyKeepsStart(s, c) ==
  LET k == CHOOSE j \in FreeSlots(s) : \A i \in FreeSlots(s) : j <= i
      hasMusic == c.musicBuffer # Null
      node == [audioBuffer |-> c.audioBuffer, musicBuffer |-> c.musicBuffer,
               voice |-> "playing", voiceOffset |-> 0,
               music |-> IF hasMusic THEN "playing" ELSE "none",
               musicOffset |-> 0,
               gain |-> IF hasMusic THEN c.musicVolume ELSE 0,
               gainLive |-> hasMusic, ownStart |-> FALSE]
      s1 == [s EXCEPT !.sessions[k] = node,
                      !.voiceSourceRef = k,
                      !.musicSourceRef = IF hasMusic THEN k ELSE @,
                      !.musicGainNodeRef = IF hasMusic THEN k ELSE @,
                      !.isPlaying = TRUE]
  IN Animate(s1, k)

\* play() from `const ctx = audioContextRef.current` to its end
PlayBody(s, c) ==
  LET k == CHOOSE j \in FreeSlots(s) : \A i \in FreeSlots(s) : j <= i
      hasMusic == c.musicBuffer # Null
      node == [audioBuffer |-> c.audioBuffer, musicBuffer |-> c.musicBuffer,
               voice |-> "playing", voiceOffset |-> 0,
               music |-> IF hasMusic THEN "playing" ELSE "none",
               musicOffset |-> 0,
               gain |-> IF hasMusic THEN c.musicVolume ELSE 0,
               gainLive |-> hasMusic, ownStart |-> TRUE]
      s1 == [s EXCEPT !.sessions = [j \in DOMAIN @ |->
                                      IF j = k THEN node
                                      ELSE [@[j] EXCEPT !.ownStart = FALSE]],
                      !.voiceSourceRef = k,
                      !.musicSourceRef = IF hasMusic THEN k ELSE @,
                      !.musicGainNodeRef = IF hasMusic THEN k ELSE @,
                      !.startTimeRef = s.now,
                      !.isPlaying = TRUE]
  IN Animate(s1, k)

\* a guard that forgets the image
PlayGuardVoiceOnly(s) == s.audioBuffer # Null

\* the guard of play()
PlayGuard(s) == s.audioBuffer # Null /\ s.imageElement

\* audioContextRef.current.state as play() finds it.  ctxState is the
\* platform's part: the state a context is constructed in, and whether an
\* engine left idle has been suspended since it last ran.
ContextState(s, ctxState) ==
  IF s.audioContextRef = "null" THEN ctxState
  ELSE IF s.audioContextRef = "suspended" THEN "suspended"
  ELSE IF AnyPlaying(s) THEN "running"
  ELSE ctxState

\* the states the platform can present to a call of togglePlay
FoundStates(s) ==
  IF ~s.isPlaying /\ PlayGuard(s) /\ s.audioContextRef # "suspended" /\ ~AnyPlaying(s)
    THEN NewContextStates
    ELSE {"running"}

\* play() up to the await: the guard, the lazy construction of the context,
\* and either the suspension on resume() or the rest of the body at once
Play(s, ctxState) ==
  IF ~PlayGuard(s) THEN s
  ELSE LET s1 == [s EXCEPT !.audioContextRef = ContextState(s, ctxState),
                           !.contextsConstructed =
                              IF s.audioContextRef = "null" THEN @ + 1 ELSE @,
                           !.playSinceStop = TRUE]
       IN IF s1.audioContextRef = "suspended"
            THEN [s1 EXCEPT !.pending = Append(@, Closure(s))]
            ELSE PlayBody(s1, Closure(s))

TogglePlayOp(s, ctxState) ==
  IF s.isPlaying THEN StopOp(s) ELSE Play(s, ctxState)

\* a volume effect that restarts playback to apply the level
VolumeEffectRestart(s, v) == StopOp([s EXCEPT !.musicVolume = v])

\* useEffect([musicVolume]): the new level reaches the live gain node
VolumeEffect(s, v) ==
  LET s1 == [s EXCEPT !.musicVolume = v]
  IN IF s1.musicGainNodeRef = Null THEN s1
     ELSE [s1 EXCEPT !.sessions[s1.musicGainNodeRef].gain = v]

\* setState(audioBuffer: b): the prop holds a new object (or null); what
\* still holds the old one holds a retired buffer
ReplaceVoice(s, b) ==
  [s EXCEPT !.audioBuffer = b,
            !.sessions = [k \in DOMAIN @ |-> [@[k] EXCEPT !.audioBuffer = Retire(@)]],
            !.pending = [i \in DOMAIN @ |-> [@[i] EXCEPT !.audioBuffer = Retire(@)]]]

\* setState(musicBuffer: b)
ReplaceMusic(s, b) ==
  [s EXCEPT !.musicBuffer = b,
            !.sessions = [k \in DOMAIN @ |-> [@[k] EXCEPT !.musicBuffer = Retire(@)]],
            !.pending = [i \in DOMAIN @ |-> [@[i] EXCEPT !.musicBuffer = Retire(@)]]]

\* useEffect([audioBuffer, musicBuffer]): stop() of the new render
BuffersEffect(s) == StopOp(s)

\* getSharedAudioContext(): the context is constructed on first use and kept;
\* one found suspended has resume() called on it and is returned all the
\* same.  [context, constructed]
GetSharedAudioContext(shared) ==
  [context |-> "context",
   constructed |-> IF shared = "null" THEN 1 ELSE 0]

\* no audioUtils function has been called yet
NoCall == [op |-> "none"]

\* ------------------------------------------------- drawFrame on the canvas
\* Times are whole seconds here.  A text is the sequence of its characters.
\* A fraction is [num, den]; 1 is kept as 1 / 1.

\* const wordsPerScreen = 8
WordsPerScreen == 8
\* audioBuffer ? audioBuffer.duration : 10
FallbackDuration == 10
\* <canvas width={1280}>
CanvasWidth == 1280
\* ctx.shadowBlur = 10
HeadlineShadowBlur == 10
\* the latest time a frame is drawn for
MaxDrawTime == 6

One == [num |-> 1, den |-> 1]

\* audioBuffer: null, as a prop
NoVoice == [duration |-> 0]

RECURSIVE SplitSpace(_)
\* String.prototype.split(' '): the pieces between one space and the next
SplitSpace(text) ==
  IF \A i \in DOMAIN text : text[i] # " " THEN <<text>>
  ELSE LET i == CHOOSE j \in DOMAIN text :
                  text[j] = " " /\ \A h \in 1..(j - 1) : text[h] # " "
       IN <<SubSeq(text, 1, i - 1)>>
            \o SplitSpace(SubSeq(text, i + 1, Len(text)))

RECURSIVE JoinSpace(_)
\* Array.prototype.join(' ')
JoinSpace(words) ==
  IF words = <<>> THEN <<>>
  ELSE IF Len(words) = 1 THEN words[1]
  ELSE words[1] \o <<" ">> \o JoinSpace(Tail(words))

\* Array.prototype.slice(start, end), start >= 0
Slice(words, start, end) ==
  SubSeq(words, start + 1, IF end < Len(words) THEN end ELSE Len(words))

\* a progress that is not held at 1
ProgressUnclamped(time, duration) == [num |-> time, den |-> duration]

\* Math.min(time / duration, 1)
Progress(time, duration) ==
  IF time < duration THEN [num |-> time, den |-> duration]
  ELSE [num |-> duration, den |-> duration]

\* a zoom that runs from 1.15 down to 1.0
ScaleShrinking(progress) ==
  [num |-> 115 * progress.den - 15 * progress.num, den |-> 100 * progress.den]

\* 1.0 + (progress * 0.15)
Scale(progress) ==
  [num |-> 100 * progress.den + 15 * progress.num, den |-> 100 * progress.den]

\* (width * 0.05) * progress
PanX(width, progress) ==
  [num |-> 5 * width * progress.num, den |-> 100 * progress.den]

\* Math.min(progress * 2, 1)
HeadlineAlpha(progress) ==
  IF 2 * progress.num < progress.den
    THEN [num |-> 2 * progress.num, den |-> progress.den]
    ELSE One

\* a count of screens that leaves out a last screen that is not full
TotalScreensFloor(words) == Len(words) \div WordsPerScreen

\* Math.ceil(words.length / wordsPerScreen)
TotalScreens(words) == (Len(words) + WordsPerScreen - 1) \div WordsPerScreen

\* Math.floor(progress * totalScreens)
CurrentScreen(progress, totalScreens) ==
  (progress.num * totalScreens) \div progress.den

\* no call of drawFrame has drawn since the props were given
NoFrame == [time |-> -1]

\* the canvas of a preview that has just been mounted: no image, no voice,
\* no analysis, an empty script, and the 2D context in its default state
NewCanvas ==
  [props |-> [imageElement |-> FALSE, audioBuffer |-> NoVoice,
              analysis |-> FALSE, script |-> <<>>],
   globalAlpha |-> One, shadowBlur |-> 0, drawn |-> NoFrame]

\* drawFrame(time) on the canvas c.  Every drawing operation is recorded
\* with the global alpha and the shadow blur it was made under; the state
\* of the 2D context stays as the call leaves it.
DrawOnCanvas(c, time) ==
  IF ~c.props.imageElement THEN c
  ELSE
    LET voice == c.props.audioBuffer
        duration == IF voice # NoVoice THEN voice.duration
                    ELSE FallbackDuration
        progress == Progress(time, duration)
        words == SplitSpace(c.props.script)
        totalScreens == TotalScreens(words)
        currentScreen == CurrentScreen(progress, totalScreens)
        startWord == currentScreen * WordsPerScreen
        visibleWords ==
          JoinSpace(Slice(words, startWord, startWord + WordsPerScreen))
        under == [globalAlpha |-> c.globalAlpha, shadowBlur |-> c.shadowBlur]
    IN [c EXCEPT
          !.drawn =
             [time |-> time, duration |-> duration, progress |-> progress,
              scale |-> Scale(progress),
              panX |-> PanX(CanvasWidth, progress),
              clear |-> under, image |-> under, overlay |-> under,
              headline |-> c.props.analysis,
              words |-> IF c.props.analysis THEN words ELSE <<>>,
              currentScreen |-> IF c.props.analysis THEN currentScreen ELSE 0,
              caption |-> IF c.props.analysis THEN visibleWords ELSE <<>>],
          !.shadowBlur = IF c.props.analysis THEN HeadlineShadowBlur ELSE @,
          !.globalAlpha = IF ~c.props.analysis THEN @
                          ELSE IF visibleWords # <<>> THEN One
                          ELSE HeadlineAlpha(progress)]

\* a render with the props p, and the effects that run after it: the
\* initial-draw effect when the image or the analysis changed, stop() and
\* its drawFrame(0) when the voice buffer changed
RenderCanvas(c, p) ==
  LET c1 == [c EXCEPT !.props = p, !.drawn = NoFrame]
      c2 == IF p.imageElement # c.props.imageElement
               \/ p.analysis # c.props.analysis
              THEN DrawOnCanvas(c1, 0) ELSE c1
  IN IF p.audioBuffer # c.props.audioBuffer THEN DrawOnCanvas(c2, 0) ELSE c2

\* --------------------------------------------------------------------- App
\* the previews that are started
MaxPreviews == 3

\* musicFileName: null
NoFileName == ""
\* file.name of the music files the user picks
FileNames == {"music.mp3"}

\* no audio export has been started
NoExport == [stage |-> "none"]

\* the ids of two of the VOICES, the first being the initial voiceProfile
VoiceIds == {"mx-male-1", "mx-female-1"}

\* script texts: the empty one and two others; the text handleImageUpload
\* shows during the analysis; the text getErrorMessage gives
ScriptTexts == {"", "Gran venta", "Solo hoy"}
AnalyzingScript == "Analizando imagen y generando guion creativo..."
ErrorScript == "Ocurrio un error inesperado. Por favor intenta de nuevo."

\* audioBuffer: null in the App's state, and no speech generation in
\* flight.  A voice buffer is known by what it was generated from: the
\* script and the voice profile generateSpot read.
NoGenerated == [script |-> "", voiceProfile |-> "null"]

\* the App as it is mounted: no music file, no export running, an empty
\* script, the first voice, no voice buffer, nothing in flight, no preview
NewApp ==
  [musicFileName |-> NoFileName, isExportingAudio |-> FALSE,
   export |-> NoExport,
   script |-> "", voiceProfile |-> "mx-male-1", analysisData |-> FALSE,
   audioBuffer |-> NoGenerated, generating |-> NoGenerated,
   isGeneratingVoice |-> FALSE, isAnalyzing |-> FALSE, isRewriting |-> FALSE,
   previewingVoiceId |-> "null", stopPreviewRef |-> 0, previews |-> <<>>]

\* ----------------------------------------------------------- GeminiService
\* A message is the sequence of its words.  An error carries a status (0:
\* none) either where generateSpeech and withRetry both look for it
\* (error.status, error.code, error.error.code: "top") or where only
\* withRetry looks (error.error.status, error.response.status: "nested").

\* withRetry: retries = 6, initialDelay = 5000
DefaultRetries == 6
DefaultInitialDelay == 5000
\* generateSpeech: withRetry(..., 2, 2000) for the fallback
FallbackRetries == 2
FallbackInitialDelay == 2000

\* let lastError: not assigned yet
NoError == [status |-> 0, at |-> "undefined", message |-> <<>>]

\* the messages of the errors an API call fails with
Messages ==
  {<<"Bad", "request">>, <<"quota", "exceeded">>,
   <<"Internal", "error", "encountered">>, <<"Internal", "Server", "Error">>,
   <<"status", "INTERNAL">>}

\* the errors an API call fails with
Errors ==
  {[status |-> 0, at |-> "top", message |-> m] : m \in Messages}
    \cup [status : {400, 429, 503}, at : {"top", "nested"}, message : Messages]

\* what an API call resolves with: a response with audio data or without
Responses == {"audio", "empty"}
NoResponse == "none"

\* the ways an API call settles
Outcomes ==
  {[ok |-> TRUE, response |-> x, error |-> NoError] : x \in Responses}
    \cup {[ok |-> FALSE, response |-> NoResponse, error |-> e] : e \in Errors}

\* message.includes(needle)
Includes(message, needle) ==
  \E k \in 1..(Len(message) - Len(needle) + 1) :
    SubSeq(message, k, k + Len(needle) - 1) = needle

\* withRetry: isRateLimit
IsRateLimit(error) ==
  \/ error.status = 429
  \/ Includes(error.message, <<"429">>)
  \/ Includes(error.message, <<"quota">>)
  \/ Includes(error.message, <<"RESOURCE_EXHAUSTED">>)

\* withRetry: isServerError
IsServerError(error) ==
  \/ error.status >= 500 /\ error.status < 600
  \/ Includes(error.message, <<"Internal", "error">>)
  \/ Includes(error.message, <<"INTERNAL">>)

\* a retry decision that does not look at the kind of the error
ShouldRetryAlways(error, i, retries) == i < retries - 1

\* (isRateLimit || isServerError) && i < retries - 1
ShouldRetry(error, i, retries) ==
  (IsRateLimit(error) \/ IsServerError(error)) /\ i < retries - 1

RECURSIVE Pow2(_)
\* Math.pow(2, i)
Pow2(i) == IF i = 0 THEN 1 ELSE 2 * Pow2(i - 1)

\* initialDelay * Math.pow(2, i)
BackoffDelay(initialDelay, i) == initialDelay * Pow2(i)

\* no call of withRetry yet
NoRetry ==
  [phase |-> "idle", operation |-> "none", retries |-> 0, initialDelay |-> 0,
   i |-> 0, attempts |-> 0, delay |-> 0, lastError |-> NoError,
   response |-> NoResponse, thrown |-> NoError, log |-> <<>>]

\* withRetry(operation, retries, initialDelay) up to its first await: the
\* loop is entered and the operation invoked, or, with no iteration to
\* make, lastError is thrown as it is
WithRetryEntered(operation, retries, initialDelay) ==
  [NoRetry EXCEPT !.operation = operation, !.retries = retries,
                  !.initialDelay = initialDelay,
                  !.phase = IF 0 < retries THEN "attempting" ELSE "thrown",
                  !.attempts = IF 0 < retries THEN 1 ELSE 0]

\* the awaited operation settles: its value is returned; its error is kept
\* as lastError and either waited on (setTimeout(resolve, delay)) or thrown
OperationSettled(r, outcome) ==
  IF outcome.ok
    THEN [r EXCEPT !.phase = "returned", !.response = outcome.response,
                   !.log = Append(@, "resolved")]
  ELSE IF ShouldRetry(outcome.error, r.i, r.retries)
    THEN [r EXCEPT !.phase = "waiting", !.lastError = outcome.error,
                   !.delay = BackoffDelay(r.initialDelay, r.i),
                   !.log = Append(@, "retried")]
  ELSE [r EXCEPT !.phase = "thrown", !.lastError = outcome.error,
                 !.thrown = outcome.error, !.log = Append(@, "rethrown")]

\* the timer of the wait fires: `continue`, i++, and the operation is
\* invoked again, or the loop is left and lastError thrown
TimerFired(r) ==
  IF r.i + 1 < r.retries
    THEN [r EXCEPT !.phase = "attempting", !.i = @ + 1, !.attempts = @ + 1]
    ELSE [r EXCEPT !.phase = "thrown", !.i = @ + 1, !.thrown = r.lastError]

\* styleInstruction: the default, a style, and the empty string
NeutralStyle == "Speak naturally."
Styles == {NeutralStyle, "Speak with excitement.", ""}

\* makeRequest(instruction): the request, with the system instruction it
\* carries, if any (trim() of the styles here is the style itself)
MakeRequest(instruction) ==
  [systemInstruction |->
     IF instruction # "" /\ instruction # NeutralStyle THEN instruction
     ELSE "none"]

\* new Error("API Key missing")
ApiKeyMissing ==
  [status |-> 0, at |-> "top", message |-> <<"API", "Key", "missing">>]

\* new Error("Failed to generate speech audio. Empty response from API.")
EmptyResponse ==
  [status |-> 0, at |-> "top",
   message |-> <<"Failed", "to", "generate", "speech", "audio.", "Empty",
                 "response", "from", "API.">>]

\* generateSpeech: isServerError, from error.status || error.code ||
\* error.error.code and error.message
IsServerErrorOfSpeech(error) ==
  LET status == IF error.at = "top" THEN error.status ELSE 0
  IN \/ status >= 500 /\ status < 600
     \/ Includes(error.message, <<"Internal">>)
     \/ Includes(error.message, <<"INTERNAL">>)

\* a fallback that is made after every failure of a styled request
FallsBackAlways(error, styleInstruction) == styleInstruction # NeutralStyle

\* isServerError && styleInstruction !== "Speak naturally."
FallsBack(error, styleInstruction) ==
  IsServerErrorOfSpeech(error) /\ styleInstruction # NeutralStyle

\* no call of generateSpeech
NoSpeech ==
  [phase |-> "none", style |-> NeutralStyle, original |-> NoError,
   thrown |-> NoError, fallback |-> FALSE]

\* generateSpeech(text, voiceName, styleInstruction) up to its first await:
\* without an API key it throws, otherwise the styled request is made
\* under withRetry with the default retries and delay.  [retry, speech]
SpeechEntered(s, styleInstruction, apiKey) ==
  IF ~apiKey
    THEN [s EXCEPT !.speech = [NoSpeech EXCEPT !.phase = "thrown",
                                               !.style = styleInstruction,
                                               !.thrown = ApiKeyMissing]]
    ELSE [retry |-> WithRetryEntered(MakeRequest(styleInstruction),
                                     DefaultRetries, DefaultInitialDelay),
          speech |-> [NoSpeech EXCEPT !.phase = "styled",
                                      !.style = styleInstruction]]

\* the catch block of generateSpeech for the error of the styled attempt
SpeechCaught(s, error) ==
  IF FallsBack(error, s.speech.style)
    THEN [retry |-> WithRetryEntered(MakeRequest(NeutralStyle),
                                     FallbackRetries, FallbackInitialDelay),
          speech |-> [s.speech EXCEPT !.phase = "fallback",
                                      !.original = error, !.fallback = TRUE]]
    ELSE [s EXCEPT !.speech.phase = "thrown", !.speech.original = error,
                   !.speech.thrown = error]

\* generateSpeech after withRetry has settled: processAudioResponse returns
\* the audio or throws on an empty response; what the styled attempt throws
\* is caught by the catch block; what the fallback throws is caught and the
\* original error thrown
SpeechContinued(s) ==
  LET failed == s.retry.phase = "thrown" \/ s.retry.response = "empty"
      error == IF s.retry.phase = "thrown" THEN s.retry.thrown
               ELSE EmptyResponse
  IN IF ~failed THEN [s EXCEPT !.speech.phase = "returned"]
     ELSE IF s.speech.phase = "styled" THEN SpeechCaught(s, error)
     ELSE [s EXCEPT !.speech.phase = "thrown",
                    !.speech.thrown = s.speech.original]

\* the service before any call
NewService == [retry |-> NoRetry, speech |-> NoSpeech]

\* ------------------------------------------------------------------- state
Init ==
  /\ audioBuffer = Null
  /\ musicBuffer = Null
  /\ musicVolume = DefaultVolume
  /\ imageElement = FALSE
  /\ isPlaying = FALSE
  /\ audioContextRef = "null"
  /\ voiceSourceRef = Null
  /\ musicSourceRef = Null
  /\ musicGainNodeRef = Null
  /\ animationFrameRef = 0
  /\ startTimeRef = 0
  /\ sessions = [k \in 1..MaxSessions |-> FreeSlot]
  /\ rafQueue = {}
  /\ pending = <<>>
  /\ frame = -1
  /\ now = 0
  /\ sharedAudioContext = "null"
  /\ contextsConstructed = 0
  /\ uncaught = FALSE
  /\ lastOp = "other"
  /\ playSinceStop = FALSE
  /\ mounted = TRUE
  /\ call = NoCall
  /\ canvas = NewCanvas
  /\ app = NewApp
  /\ svc = NewService

\* Continuations of resolved promises run before any other event.
MicrotasksReady == audioContextRef = "running" /\ pending # <<>>

SharedUnchanged == UNCHANGED sharedAudioContext

\* The playback handlers leave the record of audioUtils calls alone.  What
\* their frames leave in the 2D context is followed in DrawSpec, not here:
\* here a frame is the time it was drawn for.
CallUnchanged == UNCHANGED <<call, canvas, svc>>

\* a handler that leaves the music file name and the audio export alone
AppUnchanged == UNCHANGED app

\* onClick={togglePlay}
TogglePlay ==
  /\ mounted
  /\ ~MicrotasksReady
  /\ isPlaying \/ ~PlayGuard(Cur) \/ Cardinality(FreeSlots(Cur)) > Len(pending)
  /\ \E ctxState \in FoundStates(Cur) :
       Install(TogglePlayOp(Cur, ctxState))
  /\ lastOp' = IF isPlaying THEN "toggleStop"
               ELSE IF ~PlayGuard(Cur) THEN "playNoop"
               ELSE IF audioContextRef' = "suspended" THEN "other"
               ELSE "playStart"
  /\ SharedUnchanged
  /\ CallUnchanged
  /\ AppUnchanged

\* the context starts running: the promises of resume() resolve
ResumeDone ==
  /\ audioContextRef = "suspended"
  /\ pending # <<>>
  /\ audioContextRef' = "running"
  /\ lastOp' = "other"
  /\ UNCHANGED <<audioBuffer, musicBuffer, musicVolume, imageElement, isPlaying,
                 voiceSourceRef, musicSourceRef, musicGainNodeRef,
                 animationFrameRef, startTimeRef, sessions, rafQueue, pending,
                 frame, now, contextsConstructed, uncaught, playSinceStop,
                 mounted>>
  /\ SharedUnchanged
  /\ CallUnchanged
  /\ AppUnchanged

\* a play() suspended on resume() continues
PlayContinue ==
  /\ MicrotasksReady
  /\ Install(PlayBody([Cur EXCEPT !.pending = Tail(@)], Head(pending)))
  /\ lastOp' = "playStart"
  /\ SharedUnchanged
  /\ CallUnchanged
  /\ AppUnchanged

\* the voice source plays to its end: its `ended` event is queued
VoiceEnds ==
  /\ ~MicrotasksReady
  /\ \E k \in DOMAIN sessions :
       /\ sessions[k].voice = "playing"
       /\ Install([Cur EXCEPT !.sessions[k].voice = "ended"])
  /\ lastOp' = "other"
  /\ SharedUnchanged
  /\ CallUnchanged
  /\ AppUnchanged

\* voiceSource.onended = () => stop()
OnEnded ==
  /\ ~MicrotasksReady
  /\ \E k \in DOMAIN sessions :
       /\ sessions[k].voice = "ended"
       /\ Install(StopOp([Cur EXCEPT !.sessions[k].voice = "done"]))
  /\ lastOp' = "other"
  /\ SharedUnchanged
  /\ CallUnchanged
  /\ AppUnchanged

\* a scheduled animate() runs
AnimationFrame ==
  /\ ~MicrotasksReady
  /\ \E k \in rafQueue :
       Install(Animate([Cur EXCEPT !.rafQueue = @ \ {k}], k))
  /\ lastOp' = "other"
  /\ SharedUnchanged
  /\ CallUnchanged
  /\ AppUnchanged

Tick ==
  /\ ~MicrotasksReady
  /\ now - startTimeRef < Late
  /\ Install([Cur EXCEPT !.now = @ + 1])
  /\ lastOp' = "other"
  /\ SharedUnchanged
  /\ CallUnchanged
  /\ AppUnchanged

\* the volume slider: setState(musicVolume), then useEffect([musicVolume])
SetMusicVolume ==
  /\ mounted
  /\ ~MicrotasksReady
  /\ \E v \in Volumes \ {musicVolume} : Install(VolumeEffect(Cur, v))
  /\ lastOp' = IF isPlaying /\ musicGainNodeRef # Null THEN "setVolume" ELSE "other"
  /\ SharedUnchanged
  /\ CallUnchanged
  /\ AppUnchanged

\* img.onload = () => setImageElement(img); the initial-draw effect
ImageOnLoad ==
  /\ mounted
  /\ ~MicrotasksReady
  /\ ~imageElement
  /\ Install(DrawFrame([Cur EXCEPT !.imageElement = TRUE], 0))
  /\ lastOp' = "other"
  /\ SharedUnchanged
  /\ CallUnchanged
  /\ AppUnchanged

\* generateSpot: pcmToAudioBuffer, then setState(audioBuffer)
GenerateSpot ==
  /\ mounted
  /\ ~MicrotasksReady
  /\ \E b \in Buffers :
       LET g == GetSharedAudioContext(sharedAudioContext)
       IN /\ sharedAudioContext' = g.context
          /\ Install([BuffersEffect(ReplaceVoice(Cur, b))
                        EXCEPT !.contextsConstructed = @ + g.constructed])
  /\ lastOp' = "other"
  /\ CallUnchanged
  /\ AppUnchanged

\* handleMusicUpload: decodeAudioFile, then setState(musicBuffer,
\* musicFileName)
MusicUpload ==
  /\ mounted
  /\ ~MicrotasksReady
  /\ \E b \in Buffers :
       LET g == GetSharedAudioContext(sharedAudioContext)
       IN /\ sharedAudioContext' = g.context
          /\ Install([BuffersEffect(ReplaceMusic(Cur, b))
                        EXCEPT !.contextsConstructed = @ + g.constructed])
  /\ \E name \in FileNames : app' = [app EXCEPT !.musicFileName = name]
  /\ lastOp' = "other"
  /\ CallUnchanged

\* handlePreviewVoice: pcmToAudioBuffer and playPreview get the shared
\* context; the preview's own source is no part of the component's state
PreviewVoice ==
  /\ mounted
  /\ ~MicrotasksReady
  /\ LET g == GetSharedAudioContext(sharedAudioContext)
     IN /\ sharedAudioContext' = g.context
        /\ Install([Cur EXCEPT !.contextsConstructed = @ + g.constructed])
  /\ lastOp' = "other"
  /\ CallUnchanged
  /\ AppUnchanged

\* selectVoice / handleDurationChange: setState(audioBuffer: null)
ClearVoice ==
  /\ mounted
  /\ ~MicrotasksReady
  /\ audioBuffer # Null
  /\ Install(BuffersEffect(ReplaceVoice(Cur, Null)))
  /\ lastOp' = "other"
  /\ SharedUnchanged
  /\ CallUnchanged
  /\ AppUnchanged

\* script editor / handleImageUpload: audioBuffer: null, musicBuffer: null;
\* handleImageUpload also sets musicFileName: null, the script editor keeps
\* the name
ClearBuffers ==
  /\ mounted
  /\ ~MicrotasksReady
  /\ audioBuffer # Null \/ musicBuffer # Null
  /\ Install(BuffersEffect(ReplaceMusic(ReplaceVoice(Cur, Null), Null)))
  /\ \E name \in {NoFileName, app.musicFileName} :
       app' = [app EXCEPT !.musicFileName = name]
  /\ lastOp' = "other"
  /\ SharedUnchanged
  /\ CallUnchanged

Next ==
  \/ TogglePlay
  \/ ResumeDone
  \/ PlayContinue
  \/ VoiceEnds
  \/ OnEnded
  \/ AnimationFrame
  \/ Tick
  \/ SetMusicVolume
  \/ ImageOnLoad
  \/ GenerateSpot
  \/ MusicUpload
  \/ PreviewVoice
  \/ ClearVoice
  \/ ClearBuffers

Spec == Init /\ [][Next]_vars

\* The event loop delivers what is queued: a running context resolves
\* resume(), continuations run, a playing voice reaches its end, a queued
\* `ended` event is dispatched, a requested animation frame is served.
FairSpec ==
  /\ Spec
  /\ WF_vars(ResumeDone)
  /\ WF_vars(PlayContinue)
  /\ WF_vars(VoiceEnds)
  /\ WF_vars(OnEnded)
  /\ WF_vars(AnimationFrame)

\* React unmounts VideoPreview: no effect of the component returns a
\* cleanup function, so nothing of the component runs; its canvas is gone
\* and its handlers can no longer be invoked.  Callbacks already registered
\* with the platform (onended, requestAnimationFrame, the continuation of a
\* suspended play()) stay registered.
Unmount ==
  /\ mounted
  /\ ~MicrotasksReady
  /\ Install([Cur EXCEPT !.mounted = FALSE])
  /\ lastOp' = "other"
  /\ SharedUnchanged
  /\ CallUnchanged
  /\ AppUnchanged

\* the preview with its whole life cycle
UnmountNext ==
  \/ Next
  \/ Unmount

UnmountSpec == Init /\ [][UnmountNext]_vars

\* -------------------------------------------------------------- audioUtils
\* bounds of the inputs given to the audioUtils functions
MaxBytes == 5
MaxVoiceSamples == 3
MaxFrames == 2

\* pcmToAudioBuffer: int16Array[i] / 32768.0
Int16Scale == 32768
\* mixAudioAndExport: const sampleRate = 44100
MixRate == 44100
\* bufferToWav: abuffer.length * numOfChan * 2 + 44
HeaderBytes == 44

\* the bytes an input is made of, and the rates a buffer is created at
ByteValues == {0, 1, 127, 128, 255}
SampleRates == {24000, MixRate}
BytesUpTo(n) == UNION {[1..k -> ByteValues] : k \in 0..n}

\* A sample is the number num / den of its buffer: a buffer is
\* [numberOfChannels, length, sampleRate, den, channels], channels[c][f]
\* the numerator of the sample of channel c at frame f (both from 1).

\* a / b rounded toward zero (b > 0): JavaScript's |0, WebIDL's conversion
\* of a number to an integer
Trunc(a, b) == IF a >= 0 THEN a \div b ELSE -((-a) \div b)

\* an element read as an unsigned 16-bit number
Uint16At(buffer, i) == buffer[2 * i - 1] + 256 * buffer[2 * i]

\* element i of an Int16Array over the bytes (little-endian two's complement)
Int16At(buffer, i) ==
  LET u == buffer[2 * i - 1] + 256 * buffer[2 * i]
  IN IF u >= 32768 THEN u - 65536 ELSE u

\* BaseAudioContext.createBuffer: a buffer of silence; NotSupportedError
\* when the number of frames is zero
CreateBuffer(numberOfChannels, length, sampleRate) ==
  IF length <= 0
    THEN [ok |-> FALSE, error |-> "NotSupportedError"]
    ELSE [ok |-> TRUE,
          buffer |-> [numberOfChannels |-> numberOfChannels, length |-> length,
                      sampleRate |-> sampleRate, den |-> Int16Scale,
                      channels |-> [c \in 1..numberOfChannels |->
                                       [f \in 1..length |-> 0]]]]

\* a conversion that takes every byte of the even part for a sample
PcmToAudioBufferPerByte(buffer, sampleRate) ==
  LET byteLength == Len(buffer)
      evenByteLength == byteLength - (byteLength % 2)
      float32Array == [i \in 1..evenByteLength |-> buffer[i]]
      created == CreateBuffer(1, Len(float32Array), sampleRate)
  IN IF ~created.ok THEN created
     ELSE [created EXCEPT !.buffer.channels[1] = float32Array]

\* pcmToAudioBuffer(buffer, sampleRate)
PcmToAudioBuffer(buffer, sampleRate) ==
  LET byteLength == Len(buffer)
      evenByteLength == byteLength - (byteLength % 2)
      int16Array == [i \in 1..(evenByteLength \div 2) |-> Int16At(buffer, i)]
      \* float32Array[i] = int16Array[i] / 32768.0: numerators over Int16Scale
      float32Array == int16Array
      created == CreateBuffer(1, Len(float32Array), sampleRate)
  IN IF ~created.ok THEN created
     ELSE [created EXCEPT !.buffer.channels[1] = float32Array]

\* AudioBuffer.duration = length / sampleRate, as a fraction
Duration(b) == [num |-> b.length, den |-> b.sampleRate]

\* the 4 bytes of setUint32(data) and the 2 bytes of setUint16(data) and
\* setInt16(data), little-endian
Uint32Bytes(data) ==
  <<data % 256, (data \div 256) % 256, (data \div 65536) % 256,
    (data \div 16777216) % 256>>

Uint16Bytes(data) ==
  LET u == data % 65536
  IN <<u % 256, u \div 256>>

\* a quantiser that does not clamp the sample first
QuantizeSampleUnclamped(num, den) ==
  IF den + 2 * num < 0 THEN Trunc(num * 32768, den)
  ELSE Trunc(num * 32767, den)

\* sample = Math.max(-1, Math.min(1, sample));
\* sample = (0.5 + sample < 0 ? sample * 32768 : sample * 32767)|0
\* for the sample num / den: 0.5 + sample < 0 is den + 2 * sample's
\* numerator < 0
QuantizeSample(num, den) ==
  LET min1 == IF num < den THEN num ELSE den
      clamped == IF min1 > -den THEN min1 ELSE -den
  IN IF den + 2 * clamped < 0
       THEN Trunc(clamped * 32768, den)
       ELSE Trunc(clamped * 32767, den)

\* an encoder that visits the samples channel by channel
InterleavePlanar(abuffer) ==
  [i \in 1..(abuffer.length * abuffer.numberOfChannels) |->
     abuffer.channels[((i - 1) \div abuffer.length) + 1]
                     [((i - 1) % abuffer.length) + 1]]

\* while (pos < abuffer.length) for (i < numOfChan): the samples in the
\* order the loops visit them, channels[i][pos]
Interleave(abuffer) ==
  [i \in 1..(abuffer.length * abuffer.numberOfChannels) |->
     abuffer.channels[((i - 1) % abuffer.numberOfChannels) + 1]
                     [((i - 1) \div abuffer.numberOfChannels) + 1]]

RECURSIVE WriteSamples(_, _)
\* view.setInt16(offset, sample, true); offset += 2, for each sample in turn
WriteSamples(samples, den) ==
  IF samples = <<>> THEN <<>>
  ELSE Uint16Bytes(QuantizeSample(Head(samples), den))
         \o WriteSamples(Tail(samples), den)

\* the header of bufferToWav: pos is still 0 when the data chunk length is
\* written
WavHeader(abuffer, length) ==
  LET numOfChan == abuffer.numberOfChannels
      pos == 0
  IN Uint32Bytes(1179011410)                            \* 0x46464952 "RIFF"
       \o Uint32Bytes(length - 8)
       \o Uint32Bytes(1163280727)                       \* 0x45564157 "WAVE"
       \o Uint32Bytes(544501094)                        \* 0x20746d66 "fmt "
       \o Uint32Bytes(16)
       \o Uint16Bytes(1)
       \o Uint16Bytes(numOfChan)
       \o Uint32Bytes(abuffer.sampleRate)
       \o Uint32Bytes(abuffer.sampleRate * 2 * numOfChan)
       \o Uint16Bytes(numOfChan * 2)
       \o Uint16Bytes(16)
       \o Uint32Bytes(1635017060)                       \* 0x61746164 "data"
       \o Uint32Bytes(length - pos - 4)

\* bufferToWav(abuffer): the bytes of the Blob.  The ArrayBuffer has `length`
\* bytes, all zero until written.
BufferToWav(abuffer) ==
  LET length == abuffer.length * abuffer.numberOfChannels * 2 + HeaderBytes
      written == WavHeader(abuffer, length)
                   \o WriteSamples(Interleave(abuffer), abuffer.den)
  IN [i \in 1..length |-> IF i <= Len(written) THEN written[i] ELSE 0]

\* new OfflineAudioContext(numberOfChannels, length, sampleRate) with length
\* the number num / den: the argument is converted to an unsigned long, that
\* is truncated; NotSupportedError when no frame is left
OfflineAudioContext(numberOfChannels, num, den, sampleRate) ==
  LET length == Trunc(num, den)
  IN IF length <= 0
       THEN [ok |-> FALSE, error |-> "NotSupportedError"]
       ELSE [ok |-> TRUE, numberOfChannels |-> numberOfChannels,
             length |-> length, sampleRate |-> sampleRate]

\* musicBuffer: null, as an argument of mixAudioAndExport
NoBuffer == [length |-> 0]

\* the connections of the voice source and of the music source
VoiceConnections == {<<"voiceSource", "destination">>}
MusicConnections ==
  {<<"musicSource", "gainNode">>, <<"gainNode", "destination">>}

\* a graph whose gain node is created whether or not there is music
MixGraphAlwaysGain(music, volume) ==
  [voiceSource |-> TRUE, voiceStart |-> 0,
   musicSource |-> music # NoBuffer, musicLoop |-> music # NoBuffer,
   musicStart |-> 0, gainNode |-> volume,
   connections |-> VoiceConnections \cup MusicConnections]

\* a graph whose music source plays its buffer once
MixGraphNoLoop(music, volume) ==
  [voiceSource |-> TRUE, voiceStart |-> 0,
   musicSource |-> music # NoBuffer, musicLoop |-> FALSE,
   musicStart |-> 0,
   gainNode |-> IF music # NoBuffer THEN volume ELSE Null,
   connections |-> IF music # NoBuffer
                     THEN VoiceConnections \cup MusicConnections
                     ELSE VoiceConnections]

\* the nodes mixAudioAndExport creates: the voice source always, the looping
\* music source and its gain node when there is a music buffer (music);
\* the frame each source is started at, and what is connected to what
MixGraph(music, volume) ==
  [voiceSource |-> TRUE, voiceStart |-> 0,
   musicSource |-> music # NoBuffer, musicLoop |-> music # NoBuffer,
   musicStart |-> 0,
   gainNode |-> IF music # NoBuffer THEN volume ELSE Null,
   connections |-> IF music # NoBuffer
                     THEN VoiceConnections \cup MusicConnections
                     ELSE VoiceConnections]

\* offlineCtx.startRendering(): the sum at the destination, frame by frame.
\* The voice is resampled to the context's rate by taking the sample that
\* is current at the frame's time, and its one channel feeds both output
\* channels; the music, both sources being started at frame 0, is repeated
\* when its source loops and silent after its end when it does not, and
\* passes through the gain node (a percentage).  Voice and music samples
\* have the same den.
StartRendering(ctx, voiceBuffer, music, graph) ==
  [numberOfChannels |-> ctx.numberOfChannels, length |-> ctx.length,
   sampleRate |-> ctx.sampleRate, den |-> voiceBuffer.den * 100,
   channels |->
     [c \in 1..ctx.numberOfChannels |->
        [f \in 1..ctx.length |->
           LET at == ((f - 1) * voiceBuffer.sampleRate) \div ctx.sampleRate
               voice == IF at < voiceBuffer.length
                          THEN voiceBuffer.channels[1][at + 1] ELSE 0
               musicAt == IF graph.musicSource
                             /\ (graph.musicLoop \/ f <= music.length)
                          THEN music.channels
                                 [IF c <= music.numberOfChannels THEN c ELSE 1]
                                 [((f - 1) % music.length) + 1]
                          ELSE 0
               gain == IF graph.gainNode = Null THEN 100 ELSE graph.gainNode
           IN 100 * voice + gain * musicAt]]]

\* mixAudioAndExport(voiceBuffer, music, volume): the context, the
\* graph and the bytes of the Blob
MixAudioAndExport(voiceBuffer, music, volume) ==
  LET duration == Duration(voiceBuffer)
      sampleRate == MixRate
      offlineCtx == OfflineAudioContext(2, sampleRate * duration.num,
                                        duration.den, sampleRate)
      graph == MixGraph(music, volume)
  IN IF ~offlineCtx.ok THEN offlineCtx
     ELSE [ok |-> TRUE, context |-> offlineCtx, graph |-> graph,
           blob |-> BufferToWav(StartRendering(offlineCtx, voiceBuffer,
                                               music, graph))]

\* ------------------------------------------------- inputs of audioUtils calls
\* voice buffers: mono, samples -0.5 and 0.25, at the rate generateSpot
\* creates them at (24000 Hz) and at the rate of the mix
VoiceBuffers ==
  {[numberOfChannels |-> 1, length |-> Len(samples), sampleRate |-> rate,
    den |-> 4, channels |-> <<samples>>] :
     samples \in UNION {[1..k -> {-2, 1}] : k \in 1..MaxVoiceSamples},
     rate \in SampleRates}

\* a stereo music buffer of n frames at the rate of the mix: 0.5 and 0.25 in
\* turn on the left, -0.25 and 0.5 in turn on the right
MusicOfLength(n) ==
  [numberOfChannels |-> 2, length |-> n, sampleRate |-> MixRate, den |-> 4,
   channels |-> <<[f \in 1..n |-> IF f % 2 = 1 THEN 2 ELSE 1],
                  [f \in 1..n |-> IF f % 2 = 1 THEN -1 ELSE 2]>>]

\* music shorter than the voice buffers (one and two frames) and longer than
\* every voice buffer
MusicBuffers ==
  {MusicOfLength(1), MusicOfLength(2), MusicOfLength(2 * MaxVoiceSamples + 2)}

\* samples of a rendered buffer, in quarters: below -1, -1, between -1 and
\* -0.5, -0.5, between -0.5 and 0, zero, positive, 1, above 1
WavSamples == {-8, -4, -3, -2, -1, 0, 3, 4, 8}
\* the samples of a second channel: fewer, to tell the channels apart
WavSamplesRight == {-3, -1, 8}

\* the channel data of the rendered buffers given to bufferToWav: one
\* channel or two (c), of n frames
WavChannels(c, n) ==
  IF c = 1 THEN {<<left>> : left \in [1..n -> WavSamples]}
  ELSE {<<left, right>> : left \in [1..n -> WavSamples],
                          right \in [1..n -> WavSamplesRight]}

\* the rendered buffer that holds the channel data ch, at the rate of the mix
WavBuffer(ch) ==
  [numberOfChannels |-> Len(ch), length |-> Len(ch[1]), sampleRate |-> MixRate,
   den |-> 4, channels |-> ch]

\* ------------------------------------------------------ audioUtils, called
\* call is the call whose result has not been taken yet, with its arguments
PlaybackUnchanged ==
  UNCHANGED <<audioBuffer, musicBuffer, musicVolume, imageElement, isPlaying,
              audioContextRef, voiceSourceRef, musicSourceRef, musicGainNodeRef,
              animationFrameRef, startTimeRef, sessions, rafQueue, pending,
              frame, now, uncaught, lastOp, playSinceStop, mounted>>

\* a call of pcmToAudioBuffer: the shared context is obtained before the
\* buffer is created
PcmToAudioBufferCall ==
  /\ call.op = "none"
  /\ \E buffer \in BytesUpTo(MaxBytes), sampleRate \in SampleRates :
       call' = [op |-> "pcmToAudioBuffer", buffer |-> buffer,
                sampleRate |-> sampleRate,
                result |-> PcmToAudioBuffer(buffer, sampleRate)]
  /\ LET g == GetSharedAudioContext(sharedAudioContext)
     IN /\ sharedAudioContext' = g.context
        /\ contextsConstructed' = contextsConstructed + g.constructed
  /\ PlaybackUnchanged
  /\ UNCHANGED <<canvas, app, svc>>

\* a call of mixAudioAndExport (handleDownloadAudio)
MixAudioAndExportCall ==
  /\ call.op = "none"
  /\ \E voiceBuffer \in VoiceBuffers, music \in MusicBuffers \cup {NoBuffer},
        volume \in Volumes :
       call' = [op |-> "mixAudioAndExport", voiceBuffer |-> voiceBuffer,
                musicBuffer |-> music, volume |-> volume,
                result |-> MixAudioAndExport(voiceBuffer, music, volume)]
  /\ UNCHANGED <<sharedAudioContext, contextsConstructed>>
  /\ PlaybackUnchanged
  /\ UNCHANGED <<canvas, app, svc>>

\* a call of bufferToWav on a rendered buffer
BufferToWavCall ==
  /\ call.op = "none"
  /\ \E c \in 1..2, n \in 1..MaxFrames :
       \E ch \in WavChannels(c, n) :
         call' = [op |-> "bufferToWav", abuffer |-> WavBuffer(ch),
                  result |-> BufferToWav(WavBuffer(ch))]
  /\ UNCHANGED <<sharedAudioContext, contextsConstructed>>
  /\ PlaybackUnchanged
  /\ UNCHANGED <<canvas, app, svc>>

\* the caller has taken the result of the call
Return ==
  /\ call.op # "none"
  /\ call' = NoCall
  /\ UNCHANGED <<sharedAudioContext, contextsConstructed>>
  /\ PlaybackUnchanged
  /\ UNCHANGED <<canvas, app, svc>>

\* the audioUtils functions, called one at a time
UtilNext ==
  \/ PcmToAudioBufferCall
  \/ MixAudioAndExportCall
  \/ BufferToWavCall
  \/ Return

UtilSpec == Init /\ [][UtilNext]_vars

\* ------------------------------------------------------- drawFrame, called
\* the words of the caption scenario, "a" to "p", and one more
Letters ==
  <<"a", "b", "c", "d", "e", "f", "g", "h", "i", "j", "k", "l", "m", "n",
    "o", "p", "q">>

\* the script of n one-letter words with one space between them
ScriptOfWords(n) == JoinSpace([i \in 1..n |-> <<Letters[i]>>])

\* the scripts the preview is given: empty, one word, two words, words with
\* two spaces between, with a space before or after, with a tab or a newline
\* between, and scripts that fill one screen, two screens, and one word more
Scripts ==
  {<<>>, <<"a">>, <<"a", " ", "b">>, <<"a", " ", " ", "b">>, <<" ", "a">>,
   <<"a", " ">>, <<"a", "\t", "b">>, <<"a", "\n", "b">>}
    \cup {ScriptOfWords(n) : n \in {8, 9, 16, 17}}

\* the durations in seconds of the voice buffers
VoiceDurations == {5}

\* the props a render can give the preview
DrawProps ==
  [imageElement : BOOLEAN,
   audioBuffer : {NoVoice} \cup {[duration |-> d] : d \in VoiceDurations},
   analysis : BOOLEAN, script : Scripts]

DrawUnchanged ==
  /\ UNCHANGED <<sharedAudioContext, contextsConstructed, call, app, svc>>
  /\ PlaybackUnchanged

\* App re-renders the preview with other props; the effects run
Render ==
  /\ \E p \in DrawProps \ {canvas.props} : canvas' = RenderCanvas(canvas, p)
  /\ DrawUnchanged

\* stop() calls drawFrame(0); animate() calls drawFrame(elapsed), which it
\* can only do after play() found a voice buffer and an image
DrawFrameCall ==
  /\ \E time \in 0..MaxDrawTime :
       /\ time > 0 =>
            canvas.props.audioBuffer # NoVoice /\ canvas.props.imageElement
       /\ canvas' = DrawOnCanvas(canvas, time)
  /\ DrawUnchanged

DrawNext ==
  \/ Render
  \/ DrawFrameCall

DrawSpec == Init /\ [][DrawNext]_vars

\* ------------------------------------------------ handleDownloadAudio
\* what can go wrong in a mix: nothing, startRendering() rejects, or
\* bufferToWav throws
Faults == {"none", "render", "encode"}

\* a mix that resolves with an empty Blob when a step of it fails
MixAudioAndExportSwallows(fault, voiceBuffer, music, volume) ==
  LET mix == MixAudioAndExport(voiceBuffer, music, volume)
  IN IF mix.ok /\ fault # "none" THEN [mix EXCEPT !.blob = <<>>] ELSE mix

\* mixAudioAndExport when the step named by fault fails: the function has
\* no try/catch, so what startRendering() rejects with or bufferToWav
\* throws is what the returned promise rejects with
MixAudioAndExportUnder(fault, voiceBuffer, music, volume) ==
  LET mix == MixAudioAndExport(voiceBuffer, music, volume)
  IN IF mix.ok /\ fault # "none" THEN [ok |-> FALSE, error |-> fault]
     ELSE mix

\* handleDownloadAudio up to its await: the flag is set and the mix of the
\* state's voice buffer, music buffer and music volume is started
ExportStarted(a, voiceBuffer, music, volume) ==
  [a EXCEPT !.isExportingAudio = TRUE,
            !.export = [stage |-> "mixing", voiceBuffer |-> voiceBuffer,
                        musicBuffer |-> music, volume |-> volume]]

\* handleDownloadAudio after its await: a resolved mix is downloaded through
\* a clicked link, a rejected one is caught, logged and shown in an alert;
\* finally the flag is cleared
ExportSettled(a, fault) ==
  LET x == a.export
      result == MixAudioAndExportUnder(fault, x.voiceBuffer, x.musicBuffer,
                                       x.volume)
  IN [a EXCEPT !.isExportingAudio = FALSE,
               !.export = [stage |-> "settled", voiceBuffer |-> x.voiceBuffer,
                           musicBuffer |-> x.musicBuffer, volume |-> x.volume,
                           fault |-> fault, result |-> result,
                           downloaded |-> result.ok, alerted |-> ~result.ok]]

ExportUnchanged ==
  /\ UNCHANGED <<sharedAudioContext, contextsConstructed, call, canvas,
                 svc>>
  /\ PlaybackUnchanged

\* the download button, enabled when there is a voice buffer and no export
\* is running
DownloadAudioClick ==
  /\ ~app.isExportingAudio
  /\ \E voiceBuffer \in VoiceBuffers, music \in MusicBuffers \cup {NoBuffer},
        volume \in Volumes :
       app' = ExportStarted(app, voiceBuffer, music, volume)
  /\ ExportUnchanged

\* the mix resolves or rejects and the handler continues
ExportSettles ==
  /\ app.export.stage = "mixing"
  /\ \E fault \in Faults : app' = ExportSettled(app, fault)
  /\ ExportUnchanged

ExportNext ==
  \/ DownloadAudioClick
  \/ ExportSettles

ExportSpec == Init /\ [][ExportNext]_vars

\* --------------------------------------------- handleMusicUpload, failing
\* a catch block that drops the music that was loaded before
HandleMusicUploadFailedClears(s) == BuffersEffect(ReplaceMusic(s, Null))

\* the catch block of handleMusicUpload: console.error and alert; no
\* setState
HandleMusicUploadFailed(s) == s

\* handleMusicUpload on a file that cannot be read (file.arrayBuffer()
\* rejects) or cannot be decoded (decodeAudioData rejects, after
\* decodeAudioFile got the shared context)
MusicUploadFails ==
  /\ mounted
  /\ ~MicrotasksReady
  /\ \E rejected \in {"arrayBuffer", "decodeAudioData"} :
       LET g == IF rejected = "decodeAudioData"
                  THEN GetSharedAudioContext(sharedAudioContext)
                  ELSE [context |-> sharedAudioContext, constructed |-> 0]
       IN /\ sharedAudioContext' = g.context
          /\ Install([HandleMusicUploadFailed(Cur)
                        EXCEPT !.contextsConstructed = @ + g.constructed])
  /\ lastOp' = "musicUploadFailed"
  /\ CallUnchanged
  /\ AppUnchanged

\* the preview and the music uploads that fail
UploadNext ==
  \/ Next
  \/ MusicUploadFails

UploadSpec == Init /\ [][UploadNext]_vars

\* ------------------------------------------- the App: script and voice
AppOnly ==
  /\ UNCHANGED <<sharedAudioContext, contextsConstructed, call, canvas, svc>>
  /\ PlaybackUnchanged

\* the script editor: onChange sets the script and drops the buffers
EditScript ==
  /\ \E text \in ScriptTexts \ {app.script} :
       app' = [app EXCEPT !.script = text, !.audioBuffer = NoGenerated]
  /\ AppOnly

\* selectVoice(voiceId)
SelectVoice ==
  /\ \E voiceId \in VoiceIds \ {app.voiceProfile} :
       app' = [app EXCEPT !.voiceProfile = voiceId,
                          !.audioBuffer = NoGenerated]
  /\ AppOnly

\* handleImageUpload up to its await (one analysis at a time here)
ImageUpload ==
  /\ ~app.isAnalyzing
  /\ app' = [app EXCEPT !.isAnalyzing = TRUE, !.analysisData = FALSE,
                        !.script = AnalyzingScript,
                        !.audioBuffer = NoGenerated,
                        !.musicFileName = NoFileName]
  /\ AppOnly

\* handleImageUpload after its await: the analysis and its script, or the
\* error message as the script
AnalysisSettles ==
  /\ app.isAnalyzing
  /\ \/ \E text \in ScriptTexts :
          app' = [app EXCEPT !.isAnalyzing = FALSE, !.analysisData = TRUE,
                             !.script = text]
     \/ app' = [app EXCEPT !.isAnalyzing = FALSE, !.script = ErrorScript]
  /\ AppOnly

\* handleDurationChange with analysis data, up to its await (one rewrite at
\* a time here)
DurationChange ==
  /\ app.analysisData
  /\ ~app.isRewriting
  /\ app' = [app EXCEPT !.isRewriting = TRUE]
  /\ AppOnly

\* handleDurationChange after its await: the new script and no voice
\* buffer, or the alert
RewriteSettles ==
  /\ app.isRewriting
  /\ \/ \E text \in ScriptTexts :
          app' = [app EXCEPT !.isRewriting = FALSE, !.script = text,
                             !.audioBuffer = NoGenerated]
     \/ app' = [app EXCEPT !.isRewriting = FALSE]
  /\ AppOnly

\* generateSpot after generateSpeech has resolved: setState(prev => ({
\* ...prev, isGeneratingVoice: false, audioBuffer: decodedVoiceBuffer }))
InstallGenerated(a) ==
  [a EXCEPT !.isGeneratingVoice = FALSE, !.generating = NoGenerated,
            !.audioBuffer = a.generating]

\* generateSpot up to its await; the button is disabled while a generation,
\* an analysis or a rewrite runs and while the script is empty
GenerateSpotClick ==
  /\ ~app.isGeneratingVoice
  /\ app.script # ""
  /\ ~app.isAnalyzing
  /\ ~app.isRewriting
  /\ app' = [app EXCEPT !.isGeneratingVoice = TRUE,
                        !.generating = [script |-> app.script,
                                        voiceProfile |-> app.voiceProfile]]
  /\ AppOnly

\* generateSpot after its await: the buffer is installed, or the alert
GenerationSettles ==
  /\ app.isGeneratingVoice
  /\ \/ app' = InstallGenerated(app)
     \/ app' = [app EXCEPT !.isGeneratingVoice = FALSE,
                           !.generating = NoGenerated]
  /\ AppOnly

GenerationNext ==
  \/ EditScript
  \/ SelectVoice
  \/ ImageUpload
  \/ AnalysisSettles
  \/ DurationChange
  \/ RewriteSettles
  \/ GenerateSpotClick
  \/ GenerationSettles

GenerationSpec == Init /\ [][GenerationNext]_vars

\* ------------------------------------------------ the App: voice previews
\* A preview is [voice, state]: "pending" while its speech is generated,
\* "playing" from playPreview on, "stopped" once its stop handle was called
\* and "finished" once it played to its end (the `ended` event is queued in
\* both), "done" after the event, "failed" when no speech came.
\* stopPreviewRef is the number of the preview whose stop handle it holds.

\* the previews whose source plays
LivePreviews(a) == {k \in DOMAIN a.previews : a.previews[k].state = "playing"}

\* if (stopPreviewRef.current) { stopPreviewRef.current();
\* stopPreviewRef.current = null; }
StopPreview(a) ==
  IF a.stopPreviewRef = 0 THEN a
  ELSE [a EXCEPT !.previews[a.stopPreviewRef].state =
                    IF @ = "playing" THEN "stopped" ELSE @,
                 !.stopPreviewRef = 0]

\* handlePreviewVoice(e, voice) up to its await
HandlePreviewVoice(a, voice) ==
  LET b == StopPreview(a)
  IN IF a.previewingVoiceId = voice
       THEN [b EXCEPT !.previewingVoiceId = "null"]
       ELSE [b EXCEPT !.previewingVoiceId = voice,
                      !.previews = Append(@, [voice |-> voice,
                                              state |-> "pending"])]

\* handlePreviewVoice after its await, for the preview k: playPreview and
\* the stop handle stored
PreviewStarted(a, k) ==
  [a EXCEPT !.previews[k].state = "playing", !.stopPreviewRef = k]

\* the catch block of handlePreviewVoice
PreviewFailed(a, k) ==
  [a EXCEPT !.previews[k].state = "failed", !.previewingVoiceId = "null"]

\* source.onended of the preview k: setPreviewingVoiceId(current =>
\* current === voice.id ? null : current)
PreviewEndedEvent(a, k) ==
  [a EXCEPT !.previews[k].state = "done",
            !.previewingVoiceId = IF @ = a.previews[k].voice THEN "null"
                                  ELSE @]

PreviewOnly ==
  /\ UNCHANGED <<call, canvas, svc>>
  /\ PlaybackUnchanged

\* a click on the preview button of a voice
PreviewClick ==
  /\ \E voice \in VoiceIds :
       /\ voice # app.previewingVoiceId => Len(app.previews) < MaxPreviews
       /\ app' = HandlePreviewVoice(app, voice)
  /\ UNCHANGED <<sharedAudioContext, contextsConstructed>>
  /\ PreviewOnly

\* generateSpeech of a pending preview resolves: pcmToAudioBuffer and
\* playPreview get the shared context
PreviewSpeechResolves ==
  /\ \E k \in DOMAIN app.previews :
       /\ app.previews[k].state = "pending"
       /\ app' = PreviewStarted(app, k)
  /\ LET g == GetSharedAudioContext(sharedAudioContext)
     IN /\ sharedAudioContext' = g.context
        /\ contextsConstructed' = contextsConstructed + g.constructed
  /\ PreviewOnly

\* generateSpeech of a pending preview rejects
PreviewSpeechRejects ==
  /\ \E k \in DOMAIN app.previews :
       /\ app.previews[k].state = "pending"
       /\ app' = PreviewFailed(app, k)
  /\ UNCHANGED <<sharedAudioContext, contextsConstructed>>
  /\ PreviewOnly

\* a preview plays to its end
PreviewPlaysOut ==
  /\ \E k \in LivePreviews(app) :
       app' = [app EXCEPT !.previews[k].state = "finished"]
  /\ UNCHANGED <<sharedAudioContext, contextsConstructed>>
  /\ PreviewOnly

\* the `ended` event of a preview is delivered
PreviewEnded ==
  /\ \E k \in DOMAIN app.previews :
       /\ app.previews[k].state \in {"stopped", "finished"}
       /\ app' = PreviewEndedEvent(app, k)
  /\ UNCHANGED <<sharedAudioContext, contextsConstructed>>
  /\ PreviewOnly

PreviewNext ==
  \/ PreviewClick
  \/ PreviewSpeechResolves
  \/ PreviewSpeechRejects
  \/ PreviewPlaysOut
  \/ PreviewEnded

PreviewSpec == Init /\ [][PreviewNext]_vars

\* ------------------------------------------------- GeminiService, called
\* the numbers of retries and the initial delays withRetry is called with
RetryCounts == {0, 1, FallbackRetries, 3, DefaultRetries}
InitialDelays == {FallbackInitialDelay, DefaultInitialDelay}

ServiceUnchanged ==
  /\ UNCHANGED <<sharedAudioContext, contextsConstructed, call, canvas, app>>
  /\ PlaybackUnchanged

\* no call of the service is running
ServiceIdle ==
  /\ svc.retry.phase \in {"idle", "returned", "thrown"}
  /\ svc.speech.phase \in {"none", "returned", "thrown"}

\* withRetry is called for an operation that is no speech request
\* (analyzeImage, rewriteScript)
WithRetryCall ==
  /\ ServiceIdle
  /\ \E retries \in RetryCounts, initialDelay \in InitialDelays :
       svc' = [retry |-> WithRetryEntered("generateContent", retries,
                                          initialDelay),
               speech |-> NoSpeech]
  /\ ServiceUnchanged

\* generateSpeech is called
GenerateSpeechCall ==
  /\ ServiceIdle
  /\ \E styleInstruction \in Styles, apiKey \in BOOLEAN :
       svc' = SpeechEntered([retry |-> NoRetry, speech |-> NoSpeech],
                            styleInstruction, apiKey)
  /\ ServiceUnchanged

\* the API call of the current attempt resolves or rejects
OperationSettles ==
  /\ svc.retry.phase = "attempting"
  /\ \E outcome \in Outcomes :
       svc' = [svc EXCEPT !.retry = OperationSettled(@, outcome)]
  /\ ServiceUnchanged

\* the timer of a wait fires
TimerFires ==
  /\ svc.retry.phase = "waiting"
  /\ svc' = [svc EXCEPT !.retry = TimerFired(@)]
  /\ ServiceUnchanged

\* generateSpeech continues after its withRetry has settled
SpeechContinues ==
  /\ svc.speech.phase \in {"styled", "fallback"}
  /\ svc.retry.phase \in {"returned", "thrown"}
  /\ svc' = SpeechContinued(svc)
  /\ ServiceUnchanged

ServiceNext ==
  \/ WithRetryCall
  \/ GenerateSpeechCall
  \/ OperationSettles
  \/ TimerFires
  \/ SpeechContinues

ServiceSpec == Init /\ [][ServiceNext]_vars

\* API calls settle, timers fire, continuations run
ServiceFairSpec ==
  /\ ServiceSpec
  /\ WF_vars(OperationSettles)
  /\ WF_vars(TimerFires)
  /\ WF_vars(SpeechContinues)

\* ------------------------------------------------------------------ claims
LiveVoices == {k \in DOMAIN sessions : sessions[k].voice = "playing"}
LiveMusic == {k \in DOMAIN sessions : sessions[k].music = "playing"}
LiveGains == {k \in DOMAIN sessions : sessions[k].gainLive}

\* what drawFrame(0) leaves on the canvas: frame 0 of the loaded image
\* (nothing can be drawn, and nothing ever was, while no image is loaded)
FrameZero(s) == IF s.imageElement THEN 0 ELSE -1

\* C1: at most one playback session is active: never two voice sources or
\* two music sources started and not yet stopped.
C1_AtMostOneSession ==
  /\ Cardinality(LiveVoices) <= 1
  /\ Cardinality(LiveMusic) <= 1

\* C2: once stop() has returned and until play() is invoked again, no voice
\* source, music source or gain node is live, no animation callback is
\* scheduled, and the canvas shows no frame with t > 0.
C2_NothingAfterStop ==
  ~playSinceStop =>
     /\ LiveVoices = {}
     /\ LiveMusic = {}
     /\ LiveGains = {}
     /\ rafQueue = {}
     /\ frame <= 0

\* C3: every live voice or music source was created from the buffer that
\* is currently the voice or music buffer.
C3_SourcesFromCurrentBuffers ==
  \A k \in DOMAIN sessions :
     /\ sessions[k].voice = "playing" => sessions[k].audioBuffer = audioBuffer
     /\ sessions[k].music = "playing" => sessions[k].musicBuffer = musicBuffer

\* C4: stop() raises nothing from any state; it leaves the session without
\* voice source, music source or gain node (each ref released, the node it
\* pointed at no longer playing), its animation callback cancelled,
\* isPlaying false and the canvas at frame 0; a second stop() changes
\* nothing.
C4_StopIdempotent ==
  LET r == StopOp(Cur)
  IN /\ r.uncaught = uncaught
     /\ r.voiceSourceRef = Null
     /\ r.musicSourceRef = Null
     /\ r.musicGainNodeRef = Null
     /\ ~r.isPlaying
     /\ r.frame = FrameZero(r)
     /\ voiceSourceRef # Null => r.sessions[voiceSourceRef].voice # "playing"
     /\ musicSourceRef # Null => r.sessions[musicSourceRef].music # "playing"
     /\ musicGainNodeRef # Null => ~r.sessions[musicGainNodeRef].gainLive
     /\ r.rafQueue = rafQueue \ {animationFrameRef}
     /\ StopOp(r) = r

\* a stop() that tore a playing session down: its voice's `ended` event is
\* still queued
C4_Witness ==
  /\ lastOp = "toggleStop"
  /\ \E k \in DOMAIN sessions : sessions[k].voice = "ended"
  /\ frame = 0

\* C5: every session that starts returns to Idle without user action:
\* whenever a session is on (isPlaying, or a music source or gain node is
\* live), a state follows in which isPlaying is false and no music source
\* or gain node is live.
C5_SessionsEnd ==
  (isPlaying \/ LiveMusic # {} \/ LiveGains # {})
     ~> (~isPlaying /\ LiveMusic = {} /\ LiveGains = {})

\* C6: play() with no voice buffer or no loaded image changes nothing, for
\* whatever state the platform would construct a context in.
C6_PlayNoop ==
  (audioBuffer = Null \/ ~imageElement) =>
     \A ctxState \in NewContextStates : Play(Cur, ctxState) = Cur

C6_Witness ==
  /\ lastOp = "playNoop"
  /\ audioBuffer = Null \/ ~imageElement
  /\ audioContextRef = "null"

\* the state a session's start leaves: the sources of the newest session
\* play from offset 0, the start timestamp is the present, frame 0 is shown
StartsFresh(r, before) ==
  /\ r.isPlaying
  /\ r.voiceSourceRef # Null
  /\ r.sessions[r.voiceSourceRef].voice = "playing"
  /\ r.sessions[r.voiceSourceRef].voiceOffset = 0
  /\ r.sessions[r.voiceSourceRef].music = "playing" =>
        r.sessions[r.voiceSourceRef].musicOffset = 0
  /\ r.startTimeRef = before.now
  /\ r.now - r.startTimeRef = 0
  /\ r.frame = 0

\* C7: a toggle while Playing is a full stop() (refs released, isPlaying
\* false, frame 0), and a start, whether at once or after the await, begins
\* at offset 0 with a newly captured start timestamp.
C7_ToggleRestarts ==
  /\ isPlaying \in BOOLEAN
  /\ isPlaying =>
       \A ctxState \in NewContextStates :
          LET r == TogglePlayOp(Cur, ctxState)
          IN /\ r = StopOp(Cur)
             /\ ~r.isPlaying
             /\ r.voiceSourceRef = Null
             /\ r.musicSourceRef = Null
             /\ r.musicGainNodeRef = Null
             /\ r.frame = 0
  /\ (~isPlaying /\ PlayGuard(Cur) /\ FreeSlots(Cur) # {}
        /\ ContextState(Cur, "running") = "running") =>
       StartsFresh(TogglePlayOp(Cur, "running"), Cur)
  /\ MicrotasksReady =>
       StartsFresh(PlayBody([Cur EXCEPT !.pending = Tail(@)], Head(pending)), Cur)

\* a session started after an earlier one was stopped: the stopped voice's
\* `ended` event is still queued
C7_Witness ==
  /\ lastOp = "playStart"
  /\ isPlaying
  /\ frame = 0
  /\ \E j \in DOMAIN sessions : j # voiceSourceRef /\ sessions[j].voice = "ended"

\* C8: a change of the gain level while a session with music is active sets
\* the live gain node's value and changes nothing else.
C8_GainMutates ==
  (isPlaying /\ musicGainNodeRef # Null) =>
     \A v \in Volumes \ {musicVolume} :
        VolumeEffect(Cur, v) =
           [Cur EXCEPT !.musicVolume = v, !.sessions[musicGainNodeRef].gain = v]

C8_Witness ==
  /\ lastOp = "setVolume"
  /\ isPlaying
  /\ musicGainNodeRef # Null
  /\ sessions[musicGainNodeRef].gain = musicVolume
  /\ sessions[voiceSourceRef].voice = "playing"

\* C9: whenever a live gain node exists, its value is the current level.
C9_GainTracksLevel ==
  \A k \in DOMAIN sessions : sessions[k].gainLive => sessions[k].gain = musicVolume

\* C10: at most one audio engine handle is ever constructed.
C10_OneEngineHandle == contextsConstructed <= 1

\* C11: once the component is unmounted no voice or music source is live,
\* no gain node is connected and no animation callback is scheduled.
C11_UnmountDestroys ==
  ~mounted =>
     /\ LiveVoices = {}
     /\ LiveMusic = {}
     /\ LiveGains = {}
     /\ rafQueue = {}

\* ------------------------------------------------------ claims: audioUtils
\* the least integer not below a / b and the integer nearest to a / b
\* (a >= 0, b > 0)
Ceil(a, b) == (a + b - 1) \div b
Round(a, b) == (2 * a + b) \div (2 * b)

\* what a decoder reads in the encoded bytes at a byte offset (from 0),
\* little-endian
ReadUint16(bytes, offset) == bytes[offset + 1] + 256 * bytes[offset + 2]

ReadUint32(bytes, offset) ==
  ReadUint16(bytes, offset) + 65536 * ReadUint16(bytes, offset + 2)

ReadInt16(bytes, offset) ==
  LET u == ReadUint16(bytes, offset)
  IN IF u >= 32768 THEN u - 65536 ELSE u

\* the byte offset of the sample of channel c at frame f (both from 0) in a
\* container of numOfChan channels
SampleOffset(numOfChan, c, f) == HeaderBytes + 2 * (f * numOfChan + c)

\* C12: for every voice buffer (n samples at 24000 Hz), the mixdown renders
\* 2 channels at 44100 Hz with a total length of exactly
\* ceil(voice.duration * 44100) frames, whatever the music buffer.
C12_MixLengthIsCeiling ==
  call.op = "mixAudioAndExport" =>
    /\ call.result.ok
    /\ call.result.context.numberOfChannels = 2
    /\ call.result.context.sampleRate = MixRate
    /\ call.result.context.length =
         Ceil(MixRate * call.voiceBuffer.length, call.voiceBuffer.sampleRate)

\* C13: for every voice buffer the mixdown output length in frames equals
\* round(voiceDuration * 44100), and the length is the same whether the
\* music buffer is absent, shorter than the voice or longer than the voice.
C13_MixLengthIsRounded ==
  call.op = "mixAudioAndExport" =>
    /\ call.result.ok
    /\ call.result.context.length =
         Round(MixRate * call.voiceBuffer.length, call.voiceBuffer.sampleRate)
    /\ \A music \in MusicBuffers \cup {NoBuffer} :
         LET other == MixAudioAndExport(call.voiceBuffer, music, call.volume)
         IN other.ok /\ other.context.length = call.result.context.length

\* C14: for every rendered buffer of F frames and C channels the header of
\* the encoded bytes reports a data sub-chunk size of F * C * 2 bytes, the
\* rendered sample rate, C channels, 16 bits per sample, the PCM format tag 1
\* and a RIFF size of the total length minus 8.
C14_WavHeaderFields ==
  call.op = "bufferToWav" =>
    LET bytes == call.result
        abuffer == call.abuffer
    IN /\ ReadUint32(bytes, 40) = abuffer.length * abuffer.numberOfChannels * 2
       /\ ReadUint32(bytes, 24) = abuffer.sampleRate
       /\ ReadUint16(bytes, 22) = abuffer.numberOfChannels
       /\ ReadUint16(bytes, 34) = 16
       /\ ReadUint16(bytes, 20) = 1
       /\ ReadUint32(bytes, 4) = Len(bytes) - 8

\* the quantisation the claim C15 describes, of the sample num / den: the
\* clamped value times 32768 when it is negative, times 32767 otherwise,
\* truncated
ScaledBySign(num, den) ==
  LET min1 == IF num < den THEN num ELSE den
      clamped == IF min1 > -den THEN min1 ELSE -den
  IN IF clamped < 0
       THEN Trunc(clamped * 32768, den)
       ELSE Trunc(clamped * 32767, den)

\* C15: every sample s of the rendered buffer is clamped to [-1, 1] and
\* written as trunc(s * 32768) when the clamped value is negative and as
\* trunc(s * 32767) when it is not, a little-endian signed 16-bit integer.
C15_QuantisedBySign ==
  call.op = "bufferToWav" =>
    LET bytes == call.result
        abuffer == call.abuffer
    IN \A c \in 1..abuffer.numberOfChannels, f \in 1..abuffer.length :
         ReadInt16(bytes, SampleOffset(abuffer.numberOfChannels, c - 1, f - 1))
           = ScaledBySign(abuffer.channels[c][f], abuffer.den)

\* C16: the encoded container is exactly 44 + F * C * 2 bytes long, a header
\* with one fmt and one data sub-chunk and nothing else, and the sample of
\* channel c at frame f is stored at byte offset 44 + 2 * (f * C + c):
\* interleaved frame by frame, every frame and channel written exactly once.
C16_ContainerLayout ==
  call.op = "bufferToWav" =>
    LET bytes == call.result
        abuffer == call.abuffer
        F == abuffer.length
        C == abuffer.numberOfChannels
    IN /\ Len(bytes) = 44 + F * C * 2
       /\ ReadUint32(bytes, 0) = 1179011410                       \* "RIFF"
       /\ ReadUint32(bytes, 8) = 1163280727                       \* "WAVE"
       /\ ReadUint32(bytes, 12) = 544501094                       \* "fmt "
       /\ ReadUint32(bytes, 16) = 16
       /\ ReadUint32(bytes, 36) = 1635017060                      \* "data"
       /\ \A c \in 0..(C - 1), f \in 0..(F - 1) :
            ReadInt16(bytes, 44 + 2 * (f * C + c))
              = QuantizeSample(abuffer.channels[c + 1][f + 1], abuffer.den)
       /\ {44 + 2 * (f * C + c) : c \in 0..(C - 1), f \in 0..(F - 1)}
            = {44 + 2 * i : i \in 0..(F * C - 1)}

\* two channels of two frames encoded, the samples all different
C16_Witness ==
  /\ call.op = "bufferToWav"
  /\ call.abuffer.numberOfChannels = 2
  /\ call.abuffer.length = 2
  /\ call.abuffer.channels = <<<<-3, 3>>, <<8, -1>>>>
  /\ Len(call.result) = 52
  /\ ReadInt16(call.result, 46) = 32767
  /\ ReadInt16(call.result, 48) = 24575

\* C17: with no music buffer the mixdown result does not depend on the gain
\* argument: the same voice buffer gives identical bytes for any two gain
\* values, and no music source and no gain node is created.
C17_GainIrrelevantWithoutMusic ==
  (call.op = "mixAudioAndExport" /\ call.musicBuffer = NoBuffer) =>
    /\ call.result.ok
    /\ ~call.result.graph.musicSource
    /\ call.result.graph.gainNode = Null
    /\ \A volume \in Volumes :
         LET other == MixAudioAndExport(call.voiceBuffer, NoBuffer, volume)
         IN other.ok /\ other.blob = call.result.blob

\* a voice of three samples mixed with no music at a gain that is not the
\* default one
C17_Witness ==
  /\ call.op = "mixAudioAndExport"
  /\ call.musicBuffer = NoBuffer
  /\ call.volume # DefaultVolume
  /\ call.voiceBuffer.length = 3
  /\ call.result.ok
  /\ call.result.graph.voiceSource

\* C18: for every even-length input of 2k bytes (k >= 1) and sample rate r
\* the conversion produces a mono buffer with exactly k samples, sample
\* rate r and duration k / r.
C18_EvenInput ==
  (/\ call.op = "pcmToAudioBuffer"
   /\ Len(call.buffer) % 2 = 0
   /\ Len(call.buffer) >= 2) =>
    LET k == Len(call.buffer) \div 2
        r == call.sampleRate
    IN /\ call.result.ok
       /\ call.result.buffer.numberOfChannels = 1
       /\ call.result.buffer.length = k
       /\ Len(call.result.buffer.channels[1]) = k
       /\ call.result.buffer.sampleRate = r
       /\ Duration(call.result.buffer).num * r
            = k * Duration(call.result.buffer).den

\* four bytes converted at a rate that is not the default one
C18_Witness ==
  /\ call.op = "pcmToAudioBuffer"
  /\ call.buffer = <<0, 128, 255, 255>>
  /\ call.sampleRate = MixRate
  /\ call.result.ok
  /\ call.result.buffer.channels = <<<<-32768, -1>>>>

\* C19: for every odd-length input of 2k + 1 bytes, k >= 0, the 1-byte
\* input included, the conversion returns a buffer with exactly k samples
\* built from the first 2k bytes and never throws.
C19_OddInput ==
  (call.op = "pcmToAudioBuffer" /\ Len(call.buffer) % 2 = 1) =>
    LET k == (Len(call.buffer) - 1) \div 2
    IN /\ call.result.ok
       /\ call.result.buffer.length = k
       /\ call.result.buffer.channels[1]
            = [i \in 1..k |-> Int16At(call.buffer, i)]

\* C20: the conversion fails with the error kind MalformedAudioData when,
\* and only when, the input is empty; every non-empty input yields a buffer
\* and no error.
C20_FailsOnlyOnEmpty ==
  call.op = "pcmToAudioBuffer" =>
    /\ ~call.result.ok <=> Len(call.buffer) = 0
    /\ ~call.result.ok => call.result.error = "MalformedAudioData"

\* C30: in the mixdown graph the voice source is connected to the output
\* with no gain stage and started at frame 0; the music source, when there
\* is one, loops, passes through exactly one gain stage whose value is the
\* gain argument, and is started at frame 0; so for a voice already at the
\* output rate every output frame i of each channel is
\* voice[i] + gain * music[i mod musicLength], encoded as it is.
C30_AdditiveMix ==
  (call.op = "mixAudioAndExport" /\ call.voiceBuffer.sampleRate = MixRate) =>
    LET voice == call.voiceBuffer
        music == call.musicBuffer
        graph == call.result.graph
        hasMusic == music # NoBuffer
        MusicAt(c, i) ==
          IF hasMusic THEN music.channels[c + 1][(i % music.length) + 1] ELSE 0
    IN /\ call.result.ok
       /\ graph.voiceSource
       /\ graph.voiceStart = 0
       /\ <<"voiceSource", "destination">> \in graph.connections
       /\ graph.musicSource = hasMusic
       /\ hasMusic =>
            /\ graph.musicLoop
            /\ graph.musicStart = 0
            /\ graph.gainNode = call.volume
            /\ {e \in graph.connections : e[1] = "musicSource"}
                 = {<<"musicSource", "gainNode">>}
            /\ {e \in graph.connections : e[1] = "gainNode"}
                 = {<<"gainNode", "destination">>}
       /\ call.result.context.length = voice.length
       /\ \A c \in 0..1, i \in 0..(voice.length - 1) :
            ReadInt16(call.result.blob, SampleOffset(2, c, i))
              = QuantizeSample(100 * voice.channels[1][i + 1]
                                 + call.volume * MusicAt(c, i),
                               100 * voice.den)

\* a voice of three frames at the output rate mixed with music of two
\* frames: the third output frame holds the first music frame again
C30_Witness ==
  /\ call.op = "mixAudioAndExport"
  /\ call.voiceBuffer.sampleRate = MixRate
  /\ call.voiceBuffer.channels = <<<<1, -2, 1>>>>
  /\ call.musicBuffer = MusicOfLength(2)
  /\ call.volume = 80
  /\ call.result.ok
  /\ ReadInt16(call.result.blob, SampleOffset(2, 0, 2)) = 21298
  /\ ReadInt16(call.result.blob, SampleOffset(2, 0, 1)) = -9830

\* C28: the end-of-voice callback registered by one session only tears down
\* that session: when the `ended` event of a voice source that stop() has
\* released is delivered after a new session was started, the callback does
\* not stop the new session's sources, cancel its animation or set isPlaying
\* to false.
C28_LateEndedSparesOthers ==
  [][\A k \in DOMAIN sessions :
       (/\ sessions[k].voice = "ended"
        /\ sessions'[k].voice # "ended"
        /\ voiceSourceRef # k) =>
         /\ \A j \in DOMAIN sessions \ {k} :
              /\ sessions[j].voice = "playing" => sessions'[j].voice = "playing"
              /\ sessions[j].music = "playing" => sessions'[j].music = "playing"
              /\ sessions[j].gainLive => sessions'[j].gainLive
              /\ j \in rafQueue => j \in rafQueue'
         /\ isPlaying => isPlaying']_vars

\* C29: within one play() the voice source, the music source and the start
\* timestamp are set up in one uninterrupted step at offset 0 (when play()
\* has just run, both sources of its session play from offset 0, no time has
\* elapsed since the captured timestamp and frame 0 of the session is drawn),
\* and every frame of a session computes elapsed time from the timestamp
\* that the session's own play() captured.
C29_OneStartOneTimestamp ==
  /\ lastOp = "playStart" =>
       /\ voiceSourceRef # Null
       /\ sessions[voiceSourceRef].voice = "playing"
       /\ sessions[voiceSourceRef].voiceOffset = 0
       /\ sessions[voiceSourceRef].music = "playing" =>
            /\ musicSourceRef = voiceSourceRef
            /\ sessions[voiceSourceRef].musicOffset = 0
       /\ now - startTimeRef = 0
       /\ voiceSourceRef \in rafQueue
  /\ \A k \in rafQueue : sessions[k].ownStart

\* ------------------------------------------------------- claims: drawFrame
\* fractions with positive denominators, compared
FracEq(a, b) == a.num * b.den = b.num * a.den
FracLeq(a, b) == a.num * b.den <= b.num * a.den

\* the last call of drawFrame drew a frame
FrameDrawn == canvas.drawn # NoFrame

\* C27: for every frame drawn, progress = clamp(t / D, 0, 1) lies in [0, 1],
\* where D is the duration of the voice buffer, or 10 when there is no voice
\* buffer; progress is 0 for the reset frame (t = 0) and 1 for every t >= D.
C27_ProgressClamped ==
  FrameDrawn =>
    LET d == canvas.drawn
        voice == canvas.props.audioBuffer
        D == IF voice = NoVoice THEN 10 ELSE voice.duration
    IN /\ d.duration = D
       /\ d.progress.den > 0
       /\ 0 <= d.progress.num /\ d.progress.num <= d.progress.den
       /\ d.time < D => FracEq(d.progress, [num |-> d.time, den |-> D])
       /\ d.time = 0 => d.progress.num = 0
       /\ d.time >= D => FracEq(d.progress, One)

\* a frame drawn for a time after the end of the voice, at progress 1
C27_Witness ==
  /\ FrameDrawn
  /\ canvas.props.audioBuffer # NoVoice
  /\ canvas.drawn.time > canvas.props.audioBuffer.duration
  /\ FracEq(canvas.drawn.progress, One)

\* C26: scale = 1.0 + 0.15 * progress and panX = 0.05 * canvasWidth *
\* progress, with scale(0) = 1.0, scale(1) = 1.15 and panX(0) = 0; both are
\* non-decreasing in progress, so from one drawn frame to the next one drawn
\* for the same props at a time that is not earlier, the zoom and the pan
\* do not move backwards.
C26_ZoomPanMonotone ==
  /\ [](FrameDrawn =>
          LET d == canvas.drawn
              q == d.progress
          IN /\ FracEq(d.scale, [num |-> 100 * q.den + 15 * q.num,
                                 den |-> 100 * q.den])
             /\ FracEq(d.panX, [num |-> 5 * 1280 * q.num,
                                den |-> 100 * q.den])
             /\ q.num = 0 => FracEq(d.scale, One) /\ d.panX.num = 0
             /\ FracEq(q, One) => FracEq(d.scale, [num |-> 115, den |-> 100]))
  /\ [][(/\ FrameDrawn
         /\ canvas'.drawn # NoFrame
         /\ canvas'.props = canvas.props
         /\ canvas.drawn.time <= canvas'.drawn.time) =>
          /\ FracLeq(canvas.drawn.progress, canvas'.drawn.progress)
          /\ FracLeq(canvas.drawn.scale, canvas'.drawn.scale)
          /\ FracLeq(canvas.drawn.panX, canvas'.drawn.panX)]_vars

\* a frame at progress 3/5: zoom 1.09, pan 38.4 pixels
C26_Witness ==
  /\ FrameDrawn
  /\ FracEq(canvas.drawn.progress, [num |-> 3, den |-> 5])
  /\ FracEq(canvas.drawn.scale, [num |-> 109, den |-> 100])
  /\ FracEq(canvas.drawn.panX, [num |-> 384, den |-> 10])

\* the words with the 0-based positions from .. (from + 7) among the n
\* one-letter words "a", "b", ..., joined by single spaces
ChunkOfLetters(n, from) ==
  LET last == IF from + 8 < n THEN from + 8 ELSE n
  IN JoinSpace([j \in 1..(IF last > from THEN last - from ELSE 0) |->
                  <<Letters[from + j]>>])

\* the smallest integer that is not below a / b
CeilDiv(a, b) == IF a % b = 0 THEN a \div b ELSE (a \div b) + 1

\* C23: for a script of W words, one space between them, and progress p =
\* min(elapsed / duration, 1), the caption shown is the chunk of 8 words
\* with index i = floor(p * ceil(W / 8)): the words 8i .. 8i + 7 of the
\* script that exist.  For the 16-word script a .. p, progress 0.0 shows
\* words 1-8 and progress 0.6 shows words 9-16.
C23_CaptionChunk ==
  (FrameDrawn /\ canvas.drawn.headline) =>
    LET d == canvas.drawn
        q == Progress(d.time, d.duration)
    IN /\ \A W \in {1, 2, 8, 9, 16, 17} :
            canvas.props.script = ScriptOfWords(W) =>
              LET chunks == CeilDiv(W, 8)
                  idx == (q.num * chunks) \div q.den
              IN /\ d.currentScreen = idx
                 /\ d.caption = ChunkOfLetters(W, 8 * idx)
       /\ canvas.props.script = ScriptOfWords(16) =>
            /\ q.num = 0 =>
                 d.caption = <<"a", " ", "b", " ", "c", " ", "d", " ", "e",
                               " ", "f", " ", "g", " ", "h">>
            /\ FracEq(q, [num |-> 6, den |-> 10]) =>
                 d.caption = <<"i", " ", "j", " ", "k", " ", "l", " ", "m",
                               " ", "n", " ", "o", " ", "p">>

\* the 16-word script at progress 0.6 shows the words 9-16
C23_Witness ==
  /\ FrameDrawn
  /\ canvas.drawn.headline
  /\ canvas.props.script = ScriptOfWords(16)
  /\ FracEq(canvas.drawn.progress, [num |-> 6, den |-> 10])
  /\ canvas.drawn.currentScreen = 1
  /\ canvas.drawn.caption = ChunkOfLetters(16, 8)

\* space, tab and newline
Whitespace == {" ", "\t", "\n"}

RECURSIVE WhitespaceWords(_)
\* the maximal runs of characters of a text that are not whitespace
WhitespaceWords(text) ==
  IF text = <<>> THEN <<>>
  ELSE IF Head(text) \in Whitespace THEN WhitespaceWords(Tail(text))
  ELSE LET n == CHOOSE m \in 1..Len(text) :
                  /\ \A h \in 1..m : text[h] \notin Whitespace
                  /\ m = Len(text) \/ text[m + 1] \in Whitespace
       IN <<SubSeq(text, 1, n)>>
            \o WhitespaceWords(SubSeq(text, n + 1, Len(text)))

\* C24: the caption words are the whitespace-delimited words of the script:
\* each word is a maximal run of characters that are not whitespace, so no
\* word is empty and no word holds a space, a tab or a newline, and the
\* caption is made of 8 such words unless it is the last chunk.
C24_WhitespaceDelimitedWords ==
  (FrameDrawn /\ canvas.drawn.headline) =>
    LET d == canvas.drawn
    IN /\ d.words = WhitespaceWords(canvas.props.script)
       /\ \A w \in DOMAIN d.words :
            /\ d.words[w] # <<>>
            /\ \A h \in DOMAIN d.words[w] : d.words[w][h] \notin Whitespace
       /\ d.currentScreen + 1 < TotalScreens(d.words) =>
            Len(WhitespaceWords(d.caption)) = 8

\* C25: a drawn frame does not depend on the state that earlier frames left
\* in the 2D context: whatever frames were drawn before, drawFrame draws the
\* image and the dark overlay under global alpha 1 and with no shadow, so
\* that the overlay is exactly 30% black.
C25_FrameIndependentOfContext ==
  FrameDrawn =>
    /\ canvas.drawn.image.globalAlpha = One
    /\ canvas.drawn.image.shadowBlur = 0
    /\ canvas.drawn.overlay.globalAlpha = One
    /\ canvas.drawn.overlay.shadowBlur = 0

\* ------------------------------------------------------------- claims: App
\* C21: a failure of the offline render or of the encode step is always
\* propagated: mixAudioAndExport rejects with that failure and never
\* resolves with a blob, and the export handler then shows an error to the
\* user, triggers no download and returns the exporting flag to false.
C21_MixdownFailurePropagated ==
  (app.export.stage = "settled" /\ app.export.fault # "none") =>
    /\ ~app.export.result.ok
    /\ app.export.result.error = app.export.fault
    /\ app.export.alerted
    /\ ~app.export.downloaded
    /\ ~app.isExportingAudio

\* an export of voice and music whose encode step failed
C21_Witness ==
  /\ app.export.stage = "settled"
  /\ app.export.fault = "encode"
  /\ app.export.musicBuffer # NoBuffer
  /\ app.export.alerted
  /\ ~app.isExportingAudio

\* C22: when reading or decoding a music file fails, the error is caught in
\* the upload handler and all existing state is unchanged: the voice buffer,
\* the music buffer and the music file name, and the playback session, which
\* is not stopped.
C22_FailedUploadChangesNothing ==
  [][lastOp' = "musicUploadFailed" =>
       /\ uncaught' = uncaught
       /\ audioBuffer' = audioBuffer
       /\ musicBuffer' = musicBuffer
       /\ app'.musicFileName = app.musicFileName
       /\ isPlaying' = isPlaying
       /\ sessions' = sessions
       /\ rafQueue' = rafQueue
       /\ pending' = pending
       /\ UNCHANGED <<audioContextRef, voiceSourceRef, musicSourceRef,
                      musicGainNodeRef, animationFrameRef, startTimeRef>>]_vars

\* an upload has failed while voice and music of an earlier upload play
C22_Witness ==
  /\ lastOp = "musicUploadFailed"
  /\ isPlaying
  /\ musicBuffer # Null
  /\ app.musicFileName # NoFileName
  /\ voiceSourceRef # Null
  /\ sessions[voiceSourceRef].voice = "playing"
  /\ sessions[voiceSourceRef].music = "playing"

\* --------------------------------------------- claims: audioUtils, samples
\* C37: every sample of a converted voice buffer equals the signed 16-bit
\* input value divided by 32768 and lies in [-1, 1): input -32768 maps to
\* -1, input 32767 maps to 32767 / 32768, and the samples are as many as
\* the 16-bit values of the input and in their order.
C37_SamplesScaled ==
  (call.op = "pcmToAudioBuffer" /\ call.result.ok) =>
    LET bytes == call.buffer
        out == call.result.buffer
        Signed(lo, hi) == IF hi >= 128 THEN lo + 256 * hi - 65536
                          ELSE lo + 256 * hi
    IN /\ out.den = 32768
       /\ Len(out.channels[1]) = Len(bytes) \div 2
       /\ \A k \in 1..(Len(bytes) \div 2) :
            LET v == Signed(bytes[2 * k - 1], bytes[2 * k])
                s == out.channels[1][k]
            IN /\ s = v
               /\ -out.den <= s /\ s < out.den
               /\ v = -32768 => s = -out.den
               /\ v = 32767 => s * 32768 = 32767 * out.den

\* the inputs -32768 and 32767, converted in that order
C37_Witness ==
  /\ call.op = "pcmToAudioBuffer"
  /\ call.buffer = <<0, 128, 255, 127>>
  /\ call.result.ok
  /\ call.result.buffer.channels[1] = <<-32768, 32767>>

\* C36: for every sample value, clamped or not, the integer the encoder
\* writes lies in -32768 .. 32767, so that the 16-bit write does not wrap
\* (what is read back is what was computed), and the quantisation is
\* monotone: of two samples the smaller one is never encoded as the larger
\* integer; -1 is encoded as -32768, 0 as 0 and 1 as 32767.
C36_QuantiserInRangeMonotone ==
  call.op = "bufferToWav" =>
    LET bytes == call.result
        abuffer == call.abuffer
        C == abuffer.numberOfChannels
        At == (1..C) \X (1..abuffer.length)
        sample(p) == abuffer.channels[p[1]][p[2]]
        encoded(p) == ReadInt16(bytes, SampleOffset(C, p[1] - 1, p[2] - 1))
    IN /\ \A p \in At :
            /\ QuantizeSample(sample(p), abuffer.den) \in -32768..32767
            /\ encoded(p) = QuantizeSample(sample(p), abuffer.den)
            /\ sample(p) = -abuffer.den => encoded(p) = -32768
            /\ sample(p) = 0 => encoded(p) = 0
            /\ sample(p) = abuffer.den => encoded(p) = 32767
       /\ \A p, q \in At : sample(p) <= sample(q) => encoded(p) <= encoded(q)

\* a buffer holding a sample below -1, the sample -0.5 and a sample above 1
C36_Witness ==
  /\ call.op = "bufferToWav"
  /\ call.abuffer.channels = <<<<-8, -2>>, <<8, -3>>>>
  /\ ReadInt16(call.result, SampleOffset(2, 0, 0)) = -32768
  /\ ReadInt16(call.result, SampleOffset(2, 1, 0)) = 32767
  /\ ReadInt16(call.result, SampleOffset(2, 0, 1)) = -16383
  /\ ReadInt16(call.result, SampleOffset(2, 1, 1)) = -24576

\* ---------------------------------------------- claims: drawFrame, captions
\* C33: for a script that is not empty and with an analysis present, every
\* frame drawn shows a caption chunk that is not empty: for every progress
\* in [0, 1], progress 1 included, the chunk index lies in
\* 0 .. chunk_count - 1.
C33_CaptionNeverEmpty ==
  (FrameDrawn /\ canvas.drawn.headline /\ canvas.props.script # <<>>) =>
    /\ canvas.drawn.currentScreen \in 0..(TotalScreens(canvas.drawn.words) - 1)
    /\ canvas.drawn.caption # <<>>

\* --------------------------------------------------- claims: GeminiService
\* n times "retried"
Retried(n) == [k \in 1..n |-> "retried"]

\* the call of withRetry has returned or thrown
RetrySettled == svc.retry.phase \in {"returned", "thrown"}

\* C31: withRetry(operation, retries, initialDelay) invokes the operation
\* at most `retries` times and always terminates.  It returns the first
\* success; after a failure classified as rate limit or server error on
\* attempt i < retries - 1 it waits initialDelay * 2^i and tries again; a
\* failure of another kind is rethrown at once, with no further attempt,
\* and a failure on the last attempt is rethrown to the caller.
C31_WithRetry ==
  /\ [](LET r == svc.retry
        IN /\ r.attempts <= r.retries
           /\ r.phase = "attempting" => r.attempts = r.i + 1
           /\ r.phase = "returned" =>
                /\ r.response \in Responses
                /\ r.log = Append(Retried(r.attempts - 1), "resolved")
           /\ r.phase = "waiting" =>
                /\ r.i < r.retries - 1
                /\ r.attempts = r.i + 1
                /\ IsRateLimit(r.lastError) \/ IsServerError(r.lastError)
                /\ r.delay = r.initialDelay * (2 ^ r.i)
           /\ (r.phase = "thrown" /\ r.attempts > 0) =>
                /\ r.thrown = r.lastError
                /\ r.thrown \in Errors
                /\ r.log = Append(Retried(r.attempts - 1), "rethrown")
                /\ \/ ~(IsRateLimit(r.thrown) \/ IsServerError(r.thrown))
                   \/ r.attempts = r.retries)
  /\ [][(svc.retry.phase = "attempting" /\ svc'.retry.phase # "attempting") =>
          LET failed == svc'.retry.lastError
          IN /\ svc'.retry.attempts = svc.retry.attempts
             /\ svc'.retry.phase = "thrown" <=>
                  /\ svc'.retry.phase # "returned"
                  /\ \/ ~(IsRateLimit(failed) \/ IsServerError(failed))
                     \/ svc.retry.i >= svc.retry.retries - 1]_vars
  /\ (svc.retry.phase = "attempting") ~> RetrySettled

\* three attempts that failed with a server error: waits of 5 and 10
\* seconds, and the third failure rethrown
C31_Witness ==
  /\ svc.retry.phase = "thrown"
  /\ svc.retry.retries = 3
  /\ svc.retry.initialDelay = 5000
  /\ svc.retry.attempts = 3
  /\ svc.retry.delay = 10000
  /\ svc.retry.thrown.status = 503
  /\ svc.retry.log = <<"retried", "retried", "rethrown">>

\* a server error: a 5xx status anywhere in the error, or a message that
\* says so
ServerError(error) ==
  \/ error.status \in 500..599
  \/ \E k \in DOMAIN error.message :
       error.message[k] \in {"Internal", "INTERNAL"}

\* C32: generateSpeech falls back to a neutral-style request only when the
\* styled request has finally failed with a server error and the requested
\* style is not the neutral one; if the fallback fails too, the error
\* thrown to the caller is the original error of the styled request, not
\* the error of the fallback; with the neutral style no fallback request is
\* made.
C32_NeutralFallback ==
  /\ [](LET s == svc.speech
        IN /\ s.fallback =>
                /\ s.style # NeutralStyle
                /\ ServerError(s.original)
           /\ s.style = NeutralStyle =>
                /\ ~s.fallback
                /\ s.phase # "fallback"
           /\ s.phase = "fallback" =>
                /\ s.fallback
                /\ svc.retry.operation.systemInstruction = "none"
           /\ (s.phase = "thrown" /\ s.fallback) => s.thrown = s.original)
  /\ [][(svc.speech.phase = "styled" /\ svc'.speech.phase = "fallback") =>
          /\ svc.retry.phase = "thrown"
          /\ svc'.speech.original = svc.retry.thrown
          /\ svc'.retry.attempts = 1]_vars

\* a styled request that finally failed with status 503, and a fallback
\* that failed with another error: the first error is the one thrown
C32_Witness ==
  /\ svc.speech.phase = "thrown"
  /\ svc.speech.fallback
  /\ svc.speech.style = "Speak with excitement."
  /\ svc.speech.thrown.status = 503
  /\ svc.retry.thrown.status = 400
  /\ svc.retry.operation.systemInstruction = "none"

\* ------------------------------------------------ claims: the App's voice
\* C34: whenever the App holds a voice buffer, the buffer was generated
\* from the current script with the currently selected voice: the buffer of
\* a generation that was in flight while the script was edited or
\* rewritten, another voice selected or a new image uploaded is not
\* installed afterwards.
C34_VoiceBufferIsCurrent ==
  app.audioBuffer # NoGenerated =>
    /\ app.audioBuffer.script = app.script
    /\ app.audioBuffer.voiceProfile = app.voiceProfile

\* C35: at most one voice preview plays at a time: in every interleaving of
\* preview clicks and completions of speech generations, a second preview
\* requested while the speech of the first is still generated included, a
\* preview only starts after any playing preview has been stopped, and the
\* stored stop handle is the handle of the only preview that plays.
C35_OnePreviewAtATime ==
  /\ Cardinality(LivePreviews(app)) <= 1
  /\ \A k \in LivePreviews(app) : app.stopPreviewRef = k

=============================================================================
